---- MODULE Spec2Model ----
(***************************************************************************)
(* The Lua customization engine of util/lua/lua.go: script resolution      *)
(* (health, action discovery, named action), the structural bridge between *)
(* host values and Lua values, and the interpretation of script results.   *)
(*                                                                         *)
(* Strings that the code matches or sorts (resource keys, override keys,   *)
(* catalog directories) are sequences of one-character strings, so that    *)
(* glob matching and byte-wise ordering are computed.  A script is a       *)
(* record [body, tag]: body is its Lua text (one of a small library whose  *)
(* meaning Eval gives), tag a leading comment that tells two scripts with  *)
(* the same body apart.                                                    *)
(***************************************************************************)
EXTENDS Integers, Sequences, FiniteSets, Bags, TLC

VARIABLES
    overrides,              \* VM.ResourceOverrides: override key -> ResourceOverride
    catalog,                \* resource_customizations.Embedded: the set of files
    gvk,                    \* the object's GroupVersionKind: [Group, Kind]
    obj,                    \* obj.Object, the resource handed to the call
    onceDone,               \* globHealthScriptPathsOnce has run
    globHealthScriptPaths,  \* the package-level cache of wildcard directories
    call,                   \* the last completed call: its name, inputs and return
    prevHealth,             \* what the previous GetHealthScript call returned
    disc,                   \* ExecuteResourceActionDiscovery in progress
    vm,                     \* the calls of runLuaWithResourceActionParameters in progress
    once                    \* globHealthScriptPathsOnce and the callers inside Do

vars == <<overrides, catalog, gvk, obj, onceDone, globHealthScriptPaths,
          call, prevHealth, disc, vm, once>>

(***************************************************************************)
(* Bounds of the model.                                                    *)
(***************************************************************************)
MaxDepth == 1       \* nesting of maps and lists below a key of the object
MaxLen == 1         \* longest list inside the object
MaxOverrides == 2   \* entries of the overrides mapping
MaxScripts == 2     \* discovery scripts handed to one call

(***************************************************************************)
(* Host values (what encoding/json and unstructured.Unstructured hold) and *)
(* Lua values (gopher-lua's LValue).                                       *)
(***************************************************************************)
HNull == [t |-> "null"]
HStr(s) == [t |-> "string", v |-> s]
HBool(b) == [t |-> "bool", v |-> b]
HMap(m) == [t |-> "map", m |-> m]
HList(l) == [t |-> "list", l |-> l]
\* A host number: its Go type and its value.
HNum(type, n) == [t |-> type, v |-> n]
\* A host value of a type decodeValue has no case for.
HOther == [t |-> "struct"]
EmptyMap == HMap(<<>>)
EmptyList == HList(<<>>)

LNil == [t |-> "nil"]
LString(s) == [t |-> "string", v |-> s]
LBool(b) == [t |-> "bool", v |-> b]
\* An LNumber, a float64: exact for every integer of magnitude up to 2^53,
\* which all the integers of this model are.
LNumber(n) == [t |-> "number", v |-> n]
\* An LTable: its array part and its hash part (string keys).
LTable(arr, hash) == [t |-> "table", arr |-> arr, hash |-> hash]

\* The outcome of an operation that panicked or failed to encode.
Panic == [t |-> "panic"]
EncodeError == [t |-> "encode-error"]

SeqsUpTo(S, n) == UNION {[1..k -> S] : k \in 0..n}
MapsOver(K, S) == UNION {[D -> S] : D \in SUBSET K}

Keys == {"a"}            \* keys of the object itself, besides its kind
NestedKeys == {"a", "b"} \* keys of the maps nested in it
Scalars == {HStr("s")}

RECURSIVE HostVals(_)
HostVals(d) ==
    IF d = 0
    THEN Scalars \cup {EmptyMap, EmptyList}
    ELSE Scalars
         \cup {HMap(m) : m \in MapsOver(NestedKeys, HostVals(d - 1))}
         \cup {HList(l) : l \in SeqsUpTo(HostVals(d - 1), MaxLen)}

\* Every object carries its kind; the other keys vary.
WithKind(m) == [k \in DOMAIN m \cup {"kind"} |-> IF k = "kind" THEN HStr("K") ELSE m[k]]
Objects == {HMap(WithKind(m)) : m \in MapsOver(Keys, HostVals(MaxDepth))}

(***************************************************************************)
(* decodeValue: host value -> Lua value.  LTable.Append ignores a nil and  *)
(* RawSetH with a nil value sets nothing, so nulls leave no entry.         *)
(***************************************************************************)
RECURSIVE decodeValue(_)
RECURSIVE DecodeItems(_)
\* decodeValue of gopher-json, which has no case for the integer types.
decodeValueWithoutIntegers(value) ==
    CASE value.t = "bool" -> LBool(value.v)
      [] value.t = "float64" -> LNumber(value.v)
      [] value.t = "string" -> LString(value.v)
      [] value.t = "json.Number" -> LString(value.v)
      [] value.t = "list" -> LTable(DecodeItems(value.l), <<>>)
      [] value.t = "map" ->
            LET present == {k \in DOMAIN value.m : decodeValue(value.m[k]) # LNil}
            IN  LTable(<<>>, [k \in present |-> decodeValue(value.m[k])])
      [] OTHER -> LNil

DecodeItems(l) ==
    IF l = <<>> THEN <<>>
    ELSE LET v == decodeValue(Head(l))
         IN  (IF v = LNil THEN <<>> ELSE <<v>>) \o DecodeItems(Tail(l))

decodeValue(value) ==
    CASE value.t = "bool" -> LBool(value.v)
      [] value.t = "float64" -> LNumber(value.v)
      [] value.t = "string" -> LString(value.v)
      [] value.t = "json.Number" -> LString(value.v)
      [] value.t = "int" -> LNumber(value.v)
      [] value.t = "int32" -> LNumber(value.v)
      [] value.t = "int64" -> LNumber(value.v)
      [] value.t = "list" -> LTable(DecodeItems(value.l), <<>>)
      [] value.t = "map" ->
            LET present == {k \in DOMAIN value.m : decodeValue(value.m[k]) # LNil}
            IN  LTable(<<>>, [k \in present |-> decodeValue(value.m[k])])
      [] OTHER -> LNil

(***************************************************************************)
(* luajson.Encode followed by json.Unmarshal into `any`: Lua value -> host *)
(* value.  A table with no entry encodes as "[]"; a table whose first key  *)
(* is a number must hold numbers only (an array), a table whose first key  *)
(* is a string must hold strings only (an object).                         *)
(***************************************************************************)
RECURSIVE Encode(_)
Encode(lv) ==
    CASE lv.t = "nil" -> HNull
      [] lv.t = "bool" -> HBool(lv.v)
      [] lv.t = "string" -> HStr(lv.v)
      [] lv.t = "number" -> HNum("float64", lv.v)
      [] lv.t = "table" ->
            IF lv.arr = <<>> /\ DOMAIN lv.hash = {}
            THEN EmptyList
            ELSE IF lv.arr # <<>>
            THEN IF DOMAIN lv.hash # {}
                 THEN EncodeError
                 ELSE LET items == [i \in 1..Len(lv.arr) |-> Encode(lv.arr[i])]
                      IN  IF \E i \in 1..Len(items) : items[i] = EncodeError
                          THEN EncodeError
                          ELSE HList(items)
            ELSE LET fields == [k \in DOMAIN lv.hash |-> Encode(lv.hash[k])]
                 IN  IF \E k \in DOMAIN fields : fields[k] = EncodeError
                     THEN EncodeError
                     ELSE HMap(fields)

(***************************************************************************)
(* cleanReturnedObj / cleanReturnedArray.  Both take and return tagged     *)
(* host values; indexing the original list past its end panics.            *)
(***************************************************************************)
RECURSIVE cleanReturnedObj(_, _)
RECURSIVE cleanReturnedArray(_, _)

\* CleanKey without the replacement of an empty list by the original map.
CleanKeyKeepsEmptyList(newValue, oldValue) ==
    CASE newValue.t = "map" ->
            IF oldValue.t = "map"
            THEN cleanReturnedObj(newValue, oldValue)
            ELSE newValue
      [] newValue.t = "list" ->
            IF oldValue.t = "list"
            THEN cleanReturnedArray(newValue, oldValue)
            ELSE newValue
      [] OTHER -> newValue

\* The switch of cleanReturnedObj on one key present in both objects.
CleanKey(newValue, oldValue) ==
    CASE newValue.t = "map" ->
            IF oldValue.t = "map"
            THEN cleanReturnedObj(newValue, oldValue)
            ELSE newValue
      [] newValue.t = "list" ->
            IF oldValue.t = "map"
            THEN IF Len(newValue.l) = 0 THEN oldValue ELSE newValue
            ELSE IF oldValue.t = "list"
                 THEN cleanReturnedArray(newValue, oldValue)
                 ELSE newValue
      [] OTHER -> newValue

cleanReturnedObj(newObj, oldObj) ==
    LET cleaned == [key \in DOMAIN newObj.m |->
                       IF key \in DOMAIN oldObj.m
                       THEN CleanKey(newObj.m[key], oldObj.m[key])
                       ELSE newObj.m[key]]
    IN  IF \E key \in DOMAIN cleaned : cleaned[key] = Panic
        THEN Panic
        ELSE HMap(cleaned)

\* The switch of cleanReturnedArray on element i.
CleanItem(newValue, oldList, i) ==
    CASE newValue.t = "map" ->
            IF i > Len(oldList) THEN Panic
            ELSE IF oldList[i].t = "map"
                 THEN cleanReturnedObj(newValue, oldList[i])
                 ELSE newValue
      [] newValue.t = "list" ->
            IF i > Len(oldList) THEN Panic
            ELSE IF oldList[i].t = "list"
                 THEN cleanReturnedArray(newValue, oldList[i])
                 ELSE newValue
      [] OTHER -> newValue

cleanReturnedArray(newObj, oldObj) ==
    LET cleaned == [i \in 1..Len(newObj.l) |-> CleanItem(newObj.l[i], oldObj.l, i)]
    IN  IF \E i \in 1..Len(cleaned) : cleaned[i] = Panic
        THEN Panic
        ELSE HList(cleaned)

(***************************************************************************)
(* Scripts.  Eval gives what runLuaWithResourceActionParameters leaves for *)
(* a script of the library: an error (a failed DoString, or the 1 s        *)
(* deadline of the context) or the value on top of the stack.              *)
(***************************************************************************)
Script(body, tag) == [body |-> body, tag |-> tag]
EmptyScript == Script("", <<>>)

\* A table {status = s}, and a table {status = s, message = m}.
StatusTable(s) == LTable(<<>>, [k \in {"status"} |-> LString(s)])
StatusMessageTable(s, m) ==
    LTable(<<>>, [k \in {"status", "message"} |->
                    IF k = "status" THEN LString(s) ELSE LString(m)])
\* A table of actions: name -> entry.
ActionsTable(entries) == LTable(<<>>, entries)
NoFields == LTable(<<>>, <<>>)
DisabledField(b) == LTable(<<>>, [k \in {"disabled"} |-> LBool(b)])
NameField(n) == LTable(<<>>, [k \in {"name"} |-> LString(n)])

Returned(v) == [err |-> "", val |-> v]
Failed(e) == [err |-> e, val |-> LNil]

\* table.insert(obj.a, item): an error when obj.a is no table.
InsertIntoA(o, item) ==
    LET d == decodeValue(o)
    IN  IF "a" \in DOMAIN d.hash /\ d.hash["a"].t = "table"
        THEN Returned([d EXCEPT !.hash["a"].arr = Append(@, item)])
        ELSE Failed("run")

Eval(script, o) ==
    CASE script.body = "" -> Returned(LNil)
      [] script.body = "return obj" -> Returned(decodeValue(o))
      [] script.body = "table.insert(obj.a, {b='s'}); return obj" ->
            InsertIntoA(o, LTable(<<>>, [k \in {"b"} |-> LString("s")]))
      [] script.body = "return nil" -> Returned(LNil)
      [] script.body = "return 'text'" -> Returned(LString("text"))
      [] script.body = "return true" -> Returned(LBool(TRUE))
      [] script.body = "obj = nil; return obj" -> Returned(LNil)
      [] script.body = "if seen then return 'again' end; seen = true; return 'first'" ->
            Returned(LString("first"))
      [] script.body = "return {}" -> Returned(NoFields)
      [] script.body = "error('failed')" -> Failed("run")
      [] script.body = "while true do end" -> Failed("timeout")
      [] script.body = "return {{operation='patch', resource=obj}}" ->
            Returned(LTable(<<LTable(<<>>, [k \in {"operation", "resource"} |->
                IF k = "operation" THEN LString("patch") ELSE decodeValue(o)])>>, <<>>))
      [] script.body = "return {{operation='create', resource=obj}}" ->
            Returned(LTable(<<LTable(<<>>, [k \in {"operation", "resource"} |->
                IF k = "operation" THEN LString("create") ELSE decodeValue(o)])>>, <<>>))
      [] script.body = "return {{operation='create', resource=obj}, {operation='patch', resource=obj}}" ->
            Returned(LTable(<<LTable(<<>>, [k \in {"operation", "resource"} |->
                IF k = "operation" THEN LString("create") ELSE decodeValue(o)]),
                              LTable(<<>>, [k \in {"operation", "resource"} |->
                IF k = "operation" THEN LString("patch") ELSE decodeValue(o)])>>, <<>>))
      [] script.body = "return {status='Healthy'}" -> Returned(StatusTable("Healthy"))
      [] script.body = "return {status='Progressing', message='wait'}" ->
            Returned(StatusMessageTable("Progressing", "wait"))
      [] script.body = "return {status='Degraded'}" -> Returned(StatusTable("Degraded"))
      [] script.body = "return {status='Unknown'}" -> Returned(StatusTable("Unknown"))
      [] script.body = "return {status='Missing'}" -> Returned(StatusTable("Missing"))
      [] script.body = "return {status='Suspended', message='paused'}" ->
            Returned(StatusMessageTable("Suspended", "paused"))
      [] script.body = "return {status='Bogus', message='text'}" ->
            Returned(StatusMessageTable("Bogus", "text"))
      [] script.body = "return {message='text'}" ->
            Returned(LTable(<<>>, [k \in {"message"} |-> LString("text")]))
      [] script.body = "return {status=true}" ->
            Returned(LTable(<<>>, [k \in {"status"} |-> LBool(TRUE)]))
      [] script.body = "return {'Healthy'}" ->
            Returned(LTable(<<LString("Healthy")>>, <<>>))
      [] script.body = "return {restart={}}" ->
            Returned(ActionsTable([k \in {"restart"} |-> NoFields]))
      [] script.body = "return {restart={disabled=true}, pause={}}" ->
            Returned(ActionsTable([k \in {"restart", "pause"} |->
                IF k = "restart" THEN DisabledField(TRUE) ELSE NoFields]))
      [] script.body = "return {restart={disabled=false}}" ->
            Returned(ActionsTable([k \in {"restart"} |-> DisabledField(FALSE)]))
      [] script.body = "return {pause={disabled=true}}" ->
            Returned(ActionsTable([k \in {"pause"} |-> DisabledField(TRUE)]))
      [] script.body = "return {restart={name='other'}}" ->
            Returned(ActionsTable([k \in {"restart"} |-> NameField("other")]))
      [] script.body = "return {restart='text'}" ->
            Returned(ActionsTable([k \in {"restart"} |-> LString("text")]))
      [] script.body = "return {'restart'}" ->
            Returned(LTable(<<LString("restart")>>, <<>>))

\* returnValue.Type().String()
TypeName(lv) ==
    CASE lv.t = "nil" -> "nil"
      [] lv.t = "bool" -> "boolean"
      [] lv.t = "string" -> "string"
      [] lv.t = "table" -> "table"

\* fmt.Errorf(incorrectReturnType, "table", actual)
incorrectReturnType(actual) ==
    CASE actual = "nil" -> "expect table output from Lua script, not nil"
      [] actual = "boolean" -> "expect table output from Lua script, not boolean"
      [] actual = "string" -> "expect table output from Lua script, not string"

(***************************************************************************)
(* ExecuteResourceAction.                                                  *)
(***************************************************************************)
PatchOperation == "patch"
CreateOperation == "create"

ImpactedResource(o, op) == [UnstructuredObj |-> o, K8SOperation |-> op]
ActionResult(e, rs) == [err |-> e, resources |-> rs]

\* json.Unmarshal into an Unstructured: a JSON object with a kind.
IsUnstructured(v) ==
    /\ v.t = "map"
    /\ "kind" \in DOMAIN v.m
    /\ v.m["kind"].t = "string"

\* json.Unmarshal of one element of a new-style array into an ImpactedResource.
IsImpactedResource(v) ==
    /\ v.t = "map"
    /\ DOMAIN v.m = {"operation", "resource"}
    /\ v.m["operation"] \in {HStr(PatchOperation), HStr(CreateOperation)}
    /\ IsUnstructured(v.m["resource"])

UnmarshalToImpactedResources(json) ==
    IF \A i \in 1..Len(json.l) : IsImpactedResource(json.l[i])
    THEN ActionResult("", [i \in 1..Len(json.l) |->
            ImpactedResource(json.l[i].m["resource"], json.l[i].m["operation"].v)])
    ELSE ActionResult("decode", <<>>)

\* The loop over the impacted resources: only a patch is cleaned.
CleanImpacted(r, o) ==
    IF r.K8SOperation = PatchOperation
    THEN ImpactedResource(cleanReturnedObj(r.UnstructuredObj, o), r.K8SOperation)
    ELSE r

\* ExecuteResourceAction decoding every output as one object to patch.
ExecuteResourceActionAlwaysLegacy(o, script) ==
    LET run == Eval(script, o)
        json == Encode(run.val)
        decoded == IF IsUnstructured(json)
                   THEN ActionResult("", <<ImpactedResource(json, PatchOperation)>>)
                   ELSE ActionResult("decode", <<>>)
        cleaned == [i \in 1..Len(decoded.resources) |->
                       CleanImpacted(decoded.resources[i], o)]
    IN  IF run.err # "" THEN ActionResult(run.err, <<>>)
        ELSE IF run.val.t # "table" THEN ActionResult(incorrectReturnType(TypeName(run.val)), <<>>)
        ELSE IF json = EncodeError THEN ActionResult("encode", <<>>)
        ELSE IF decoded.err # "" THEN decoded
        ELSE IF \E i \in 1..Len(cleaned) : cleaned[i].UnstructuredObj = Panic
             THEN ActionResult("panic", <<>>)
             ELSE ActionResult("", cleaned)

ExecuteResourceAction(o, script) ==
    LET run == Eval(script, o)
        json == Encode(run.val)
        decoded == IF json.t = "list"
                   THEN UnmarshalToImpactedResources(json)
                   ELSE IF IsUnstructured(json)
                        THEN ActionResult("", <<ImpactedResource(json, PatchOperation)>>)
                        ELSE ActionResult("decode", <<>>)
        cleaned == [i \in 1..Len(decoded.resources) |->
                       CleanImpacted(decoded.resources[i], o)]
    IN  IF run.err # "" THEN ActionResult(run.err, <<>>)
        ELSE IF run.val.t # "table" THEN ActionResult(incorrectReturnType(TypeName(run.val)), <<>>)
        ELSE IF json = EncodeError THEN ActionResult("encode", <<>>)
        ELSE IF decoded.err # "" THEN decoded
        ELSE IF \E i \in 1..Len(cleaned) : cleaned[i].UnstructuredObj = Panic
             THEN ActionResult("panic", <<>>)
             ELSE ActionResult("", cleaned)

(***************************************************************************)
(* The same call on the host heap.  Maps and slices are reference values:  *)
(* a heap holds a node per map and per list, and a cell of a node holds a  *)
(* scalar or a pointer to a node.  Root 0 is obj.Object, root i the object *)
(* of the i-th impacted resource; the cleaning pass writes in place.       *)
(***************************************************************************)
Root(n) == [root |-> n, path |-> <<>>]
AtKey(ref, key) == [ref EXCEPT !.path = Append(@, [key |-> key, index |-> 0])]
AtIndex(ref, i) == [ref EXCEPT !.path = Append(@, [key |-> "", index |-> i])]
Pointer(ref) == [t |-> "ref", to |-> ref]

\* What a map or a list holds for the value v stored at ref.
Cell(v, ref) == IF v.t \in {"map", "list"} THEN Pointer(ref) ELSE v

\* The nodes of the value v stored at ref.
RECURSIVE Nodes(_, _)
RECURSIVE NodesOfKeys(_, _, _)
RECURSIVE NodesOfItems(_, _, _)
NodesOfKeys(v, ref, keys) ==
    IF keys = {} THEN <<>>
    ELSE LET key == CHOOSE k \in keys : TRUE
         IN  Nodes(v.m[key], AtKey(ref, key)) @@ NodesOfKeys(v, ref, keys \ {key})
NodesOfItems(v, ref, i) ==
    IF i > Len(v.l) THEN <<>>
    ELSE Nodes(v.l[i], AtIndex(ref, i)) @@ NodesOfItems(v, ref, i + 1)
Nodes(v, ref) ==
    CASE v.t = "map" ->
            (ref :> [t |-> "map",
                     m |-> [k \in DOMAIN v.m |-> Cell(v.m[k], AtKey(ref, k))]])
            @@ NodesOfKeys(v, ref, DOMAIN v.m)
      [] v.t = "list" ->
            (ref :> [t |-> "list",
                     l |-> [i \in 1..Len(v.l) |-> Cell(v.l[i], AtIndex(ref, i))]])
            @@ NodesOfItems(v, ref, 1)
      [] OTHER -> <<>>

\* The value a cell stands for.
RECURSIVE Load(_, _)
Load(nodes, cell) ==
    IF cell.t # "ref" THEN cell
    ELSE LET n == nodes[cell.to]
         IN  IF n.t = "map"
             THEN HMap([k \in DOMAIN n.m |-> Load(nodes, n.m[k])])
             ELSE HList([i \in 1..Len(n.l) |-> Load(nodes, n.l[i])])

\* A heap: its nodes, and whether the call panicked on it.
Heap(nodes) == [panic |-> FALSE, nodes |-> nodes]
IsMapCell(h, cell) == cell.t = "ref" /\ h.nodes[cell.to].t = "map"
IsListCell(h, cell) == cell.t = "ref" /\ h.nodes[cell.to].t = "list"

\* mapToReturn[key] = cell and arrayToReturn[i] = cell.
Assign(h, ref, key, cell) == [h EXCEPT !.nodes[ref].m[key] = cell]
AssignItem(h, ref, i, cell) == [h EXCEPT !.nodes[ref].l[i] = cell]

\* A cleaning pass that writes into the original map.
ReturnedMapIsOriginal(newObj, oldObj) == oldObj

\* mapToReturn := newObj
ReturnedMap(newObj, oldObj) == newObj

RECURSIVE cleanReturnedObjInPlace(_, _, _)
RECURSIVE cleanReturnedArrayInPlace(_, _, _)
RECURSIVE CleanKeysInPlace(_, _, _, _)
RECURSIVE CleanItemsInPlace(_, _, _, _)

\* The body of cleanReturnedObj's loop for a key of both maps.
CleanKeyInPlace(h, newObj, oldObj, key) ==
    LET newValue == h.nodes[newObj].m[key]
        oldValue == h.nodes[oldObj].m[key]
        mapToReturn == ReturnedMap(newObj, oldObj)
    IN  CASE IsMapCell(h, newValue) ->
                IF IsMapCell(h, oldValue)
                THEN LET c == cleanReturnedObjInPlace(h, newValue.to, oldValue.to)
                     IN  IF c.panic THEN c
                         ELSE Assign(c, mapToReturn, key,
                                     Pointer(ReturnedMap(newValue.to, oldValue.to)))
                ELSE h
          [] IsListCell(h, newValue) ->
                IF IsMapCell(h, oldValue)
                THEN IF Len(h.nodes[newValue.to].l) = 0
                     THEN Assign(h, mapToReturn, key, oldValue)
                     ELSE h
                ELSE IF IsListCell(h, oldValue)
                THEN LET c == cleanReturnedArrayInPlace(h, newValue.to, oldValue.to)
                     IN  IF c.panic THEN c
                         ELSE Assign(c, mapToReturn, key, Pointer(newValue.to))
                ELSE h
          [] OTHER -> h

\* The loop over the keys; the keys are cleaned independently of each other,
\* so every order of the range leaves the same heap.
CleanKeysInPlace(h, newObj, oldObj, keys) ==
    IF keys = {} \/ h.panic THEN h
    ELSE LET key == CHOOSE k \in keys : TRUE
         IN  CleanKeysInPlace(CleanKeyInPlace(h, newObj, oldObj, key),
                              newObj, oldObj, keys \ {key})

cleanReturnedObjInPlace(h, newObj, oldObj) ==
    CleanKeysInPlace(h, newObj, oldObj,
                     DOMAIN h.nodes[oldObj].m \cap DOMAIN h.nodes[newObj].m)

\* The body of cleanReturnedArray's loop.
CleanItemInPlace(h, newObj, oldObj, i) ==
    LET newValue == h.nodes[newObj].l[i]
        old == h.nodes[oldObj].l
    IN  CASE IsMapCell(h, newValue) ->
                IF i > Len(old) THEN [h EXCEPT !.panic = TRUE]
                ELSE IF IsMapCell(h, old[i])
                THEN LET c == cleanReturnedObjInPlace(h, newValue.to, old[i].to)
                     IN  IF c.panic THEN c
                         ELSE AssignItem(c, newObj, i,
                                         Pointer(ReturnedMap(newValue.to, old[i].to)))
                ELSE h
          [] IsListCell(h, newValue) ->
                IF i > Len(old) THEN [h EXCEPT !.panic = TRUE]
                ELSE IF IsListCell(h, old[i])
                THEN LET c == cleanReturnedArrayInPlace(h, newValue.to, old[i].to)
                     IN  IF c.panic THEN c
                         ELSE AssignItem(c, newObj, i, Pointer(newValue.to))
                ELSE h
          [] OTHER -> h

CleanItemsInPlace(h, newObj, oldObj, i) ==
    IF h.panic \/ i > Len(h.nodes[newObj].l) THEN h
    ELSE CleanItemsInPlace(CleanItemInPlace(h, newObj, oldObj, i), newObj, oldObj, i + 1)

cleanReturnedArrayInPlace(h, newObj, oldObj) == CleanItemsInPlace(h, newObj, oldObj, 1)

\* json.Unmarshal allocates the objects of the impacted resources.
RECURSIVE Unmarshalled(_, _)
Unmarshalled(resources, i) ==
    IF i > Len(resources) THEN <<>>
    ELSE Nodes(resources[i].UnstructuredObj, Root(i)) @@ Unmarshalled(resources, i + 1)

\* The loop over the impacted resources, from the i-th on.
RECURSIVE CleanImpactedInPlace(_, _, _)
CleanImpactedInPlace(h, resources, i) ==
    IF h.panic \/ i > Len(resources) THEN h
    ELSE CleanImpactedInPlace(
            IF resources[i].K8SOperation = PatchOperation
            THEN cleanReturnedObjInPlace(h, Root(i), Root(0))
            ELSE h,
            resources, i + 1)

\* The heap ExecuteResourceAction leaves.  The interpreter works on the
\* tables decodeValue built and its output is decoded into new objects.
ExecuteResourceActionInPlace(o, script) ==
    LET run == Eval(script, o)
        json == Encode(run.val)
        decoded == IF json.t = "list"
                   THEN UnmarshalToImpactedResources(json)
                   ELSE IF IsUnstructured(json)
                        THEN ActionResult("", <<ImpactedResource(json, PatchOperation)>>)
                        ELSE ActionResult("decode", <<>>)
        before == Nodes(o, Root(0))
    IN  IF run.err # "" \/ run.val.t # "table" \/ json = EncodeError \/ decoded.err # ""
        THEN Heap(before)
        ELSE CleanImpactedInPlace(Heap(before @@ Unmarshalled(decoded.resources, 1)),
                                  decoded.resources, 1)

\* The heap ExecuteHealthLua and ExecuteResourceActionDiscovery leave: they
\* read obj.Object through decodeValue and decode the output into new values.
ExecuteWithoutCleaningInPlace(o, script) == Heap(Nodes(o, Root(0)))

ActionScripts ==
    {Script(b, <<"user">>) : b \in {"return obj", "return nil", "return {}",
        "table.insert(obj.a, {b='s'}); return obj",
        "error('failed')", "return {{operation='patch', resource=obj}}",
        "return {{operation='create', resource=obj}}",
        "return {{operation='create', resource=obj}, {operation='patch', resource=obj}}",
        "return {status='Healthy'}", "return 'text'"}}

(***************************************************************************)
(* Strings: resource keys, override keys and catalog directories.          *)
(***************************************************************************)
\* The byte of a character (Go compares strings byte-wise).
Ord(c) ==
    CASE c = "*" -> 42 [] c = "/" -> 47 [] c = "K" -> 75 [] c = "[" -> 91
      [] c = "_" -> 95 [] c = "g" -> 103 [] c = "x" -> 120

RECURSIVE StrLess(_, _)
StrLess(a, b) ==
    IF a = <<>> THEN b # <<>>
    ELSE IF b = <<>> THEN FALSE
    ELSE IF Head(a) = Head(b) THEN StrLess(Tail(a), Tail(b))
    ELSE Ord(Head(a)) < Ord(Head(b))

\* strings.ReplaceAll for a one-character old and new.
ReplaceAll(str, old, new) == [i \in 1..Len(str) |-> IF str[i] = old THEN new ELSE str[i]]

\* strings.Contains for a one-character substring.
Contains(str, c) == \E i \in 1..Len(str) : str[i] = c

GetConfigMapKey(g) ==
    IF g.Group = <<>> THEN g.Kind ELSE g.Group \o <<"/">> \o g.Kind

\* argoglob.Match(pattern, text) without separators: "*" stands for any run of
\* characters, every other character for itself.
RECURSIVE ArgoGlobMatch(_, _)
ArgoGlobMatch(pattern, text) ==
    IF pattern = <<>> THEN text = <<>>
    ELSE IF Head(pattern) = "*"
    THEN \/ ArgoGlobMatch(Tail(pattern), text)
         \/ text # <<>> /\ ArgoGlobMatch(pattern, Tail(text))
    ELSE /\ text # <<>>
         /\ Head(text) = Head(pattern)
         /\ ArgoGlobMatch(Tail(pattern), Tail(text))

\* doublestar's PathMatchUnvalidated: "*" stands for any run of characters
\* other than the path separator.
RECURSIVE PathMatchUnvalidated(_, _)
PathMatchUnvalidated(pattern, name) ==
    IF pattern = <<>> THEN name = <<>>
    ELSE IF Head(pattern) = "*"
    THEN \/ PathMatchUnvalidated(Tail(pattern), name)
         \/ name # <<>> /\ Head(name) # "/" /\ PathMatchUnvalidated(pattern, Tail(name))
    ELSE /\ name # <<>>
         /\ Head(name) = Head(pattern)
         /\ PathMatchUnvalidated(Tail(pattern), Tail(name))

\* doublestar's ValidatePattern: a character class that is never closed is
\* the malformed pattern of this alphabet.
ValidatePattern(pattern) == ~Contains(pattern, "[")

(***************************************************************************)
(* The built-in catalog: an embedded, read-only file tree.                 *)
(***************************************************************************)
healthScriptFile == "health.lua"
actionScriptFile == "action.lua"
actionDiscoveryScriptFile == "discovery.lua"

\* filepath.Join(dir, name) as a file of the tree.
File(dir, name) == [dir |-> dir, name |-> name]

\* What a built-in file holds: the tag tells the files apart.
Content(file) ==
    Script(CASE file.name = healthScriptFile -> "return {status='Degraded'}"
             [] file.name = actionDiscoveryScriptFile ->
                    "return {restart={disabled=true}, pause={}}"
             [] OTHER -> "return obj",
           file.dir \o <<file.name>>)

\* What a lookup returns; reads is the set of catalog files it asked for.
Lookup(script, err, reads) == [script |-> script, err |-> err, reads |-> reads]

getPredefinedLuaScripts(cat, objKey, scriptFile) ==
    LET file == File(objKey, scriptFile)
    IN  IF file \in cat
        THEN Lookup(Content(file), "", {file})
        ELSE Lookup(EmptyScript, "errScriptDoesNotExist", {file})

\* The strings of a set in the order slices.Sort leaves them.
RECURSIVE Sorted(_)
Sorted(S) ==
    IF S = {} THEN <<>>
    ELSE LET first == CHOOSE x \in S : \A y \in S \ {x} : StrLess(x, y)
         IN  <<first>> \o Sorted(S \ {first})

\* The directories fs.WalkDir's callback keeps: those of a health.lua whose
\* path holds the wildcard marker.
WildcardDirs(cat) ==
    {f.dir : f \in {h \in cat : h.name = healthScriptFile /\ Contains(h.dir, "_")}}

\* The callback fails the walk on a directory whose pattern is malformed.
WalkFails(cat) ==
    \E d \in WildcardDirs(cat) : ~ValidatePattern(ReplaceAll(d, "_", "*"))

\* getGlobHealthScriptPaths that returns the walk's result without publishing it.
getGlobHealthScriptPathsUnpublished(cat, done, cached) ==
    IF done
    THEN [paths |-> cached, err |-> "", done |-> TRUE, cached |-> cached]
    ELSE [paths |-> Sorted(WildcardDirs(cat)), err |-> "", done |-> TRUE,
          cached |-> cached]

\* getGlobHealthScriptPaths, run by one caller at a time: the paths and error
\* it returns and the package state it leaves.
getGlobHealthScriptPaths(cat, done, cached) ==
    IF done
    THEN [paths |-> cached, err |-> "", done |-> TRUE, cached |-> cached]
    ELSE IF WalkFails(cat)
    THEN [paths |-> <<>>, err |-> "walk", done |-> TRUE, cached |-> cached]
    ELSE [paths |-> Sorted(WildcardDirs(cat)), err |-> "", done |-> TRUE,
          cached |-> Sorted(WildcardDirs(cat))]

\* FirstMatch taking the last directory that matches.
LastMatch(globs, objKey) ==
    LET hits == {i \in 1..Len(globs) :
                    PathMatchUnvalidated(ReplaceAll(globs[i], "_", "*"), objKey)}
    IN  IF hits = {} THEN 0 ELSE CHOOSE i \in hits : \A j \in hits : i >= j

\* The first directory of globs, in their order, whose pattern matches objKey
\* (0 when none does).
FirstMatch(globs, objKey) ==
    LET hits == {i \in 1..Len(globs) :
                    PathMatchUnvalidated(ReplaceAll(globs[i], "_", "*"), objKey)}
    IN  IF hits = {} THEN 0 ELSE CHOOSE i \in hits : \A j \in hits : i <= j

getWildcardBuiltInHealthOverrideLua(cat, done, cached, objKey) ==
    LET globs == getGlobHealthScriptPaths(cat, done, cached)
        hit == FirstMatch(globs.paths, objKey)
        file == File(globs.paths[hit], healthScriptFile)
    IN  IF globs.err # ""
        THEN [script |-> EmptyScript, err |-> globs.err, reads |-> {}, globs |-> globs]
        ELSE IF hit = 0
        THEN [script |-> EmptyScript, err |-> "", reads |-> {}, globs |-> globs]
        ELSE IF file \in cat
        THEN [script |-> Content(file), err |-> "", reads |-> {file}, globs |-> globs]
        ELSE [script |-> EmptyScript, err |-> "read", reads |-> {file}, globs |-> globs]

(***************************************************************************)
(* The overrides mapping.                                                  *)
(***************************************************************************)
\* ResourceOverride.Actions, a YAML text, as what GetActions parses from it:
\* yaml is "" (no actions block), "invalid" (GetActions fails) or "ok".
ActionsBlock(yaml, discovery, definitions, merge) ==
    [yaml |-> yaml, ActionDiscoveryLua |-> discovery, Definitions |-> definitions,
     MergeBuiltinActions |-> merge]
NoActions == ActionsBlock("", EmptyScript, <<>>, FALSE)
InvalidActions == ActionsBlock("invalid", EmptyScript, <<>>, FALSE)

ResourceOverride(healthLua, useOpenLibs, actions) ==
    [HealthLua |-> healthLua, UseOpenLibs |-> useOpenLibs, Actions |-> actions]

\* The orders in which a range over a Go map may visit its keys.
IterationOrders(S) ==
    {o \in [1..Cardinality(S) -> S] : \A i, j \in DOMAIN o : o[i] = o[j] => i = j}

\* getWildcardHealthOverrideLua taking the first key that matches, whether or
\* not its health script is empty.
getWildcardHealthOverrideLuaAnyScript(ov, order, g) ==
    LET gvkKeyToMatch == GetConfigMapKey(g)
        hits == {i \in 1..Len(order) : ArgoGlobMatch(order[i], gvkKeyToMatch)}
        first == CHOOSE i \in hits : \A j \in hits : i <= j
    IN  IF hits = {}
        THEN [script |-> EmptyScript, useOpenLibs |-> FALSE]
        ELSE [script |-> ov[order[first]].HealthLua,
              useOpenLibs |-> ov[order[first]].UseOpenLibs]

\* getWildcardHealthOverrideLua, the range visiting the keys in `order`.
getWildcardHealthOverrideLua(ov, order, g) ==
    LET gvkKeyToMatch == GetConfigMapKey(g)
        hits == {i \in 1..Len(order) :
                    /\ ArgoGlobMatch(order[i], gvkKeyToMatch)
                    /\ ov[order[i]].HealthLua # EmptyScript}
        first == CHOOSE i \in hits : \A j \in hits : i <= j
    IN  IF hits = {}
        THEN [script |-> EmptyScript, useOpenLibs |-> FALSE]
        ELSE [script |-> ov[order[first]].HealthLua,
              useOpenLibs |-> ov[order[first]].UseOpenLibs]

(***************************************************************************)
(* GetHealthScript.                                                        *)
(***************************************************************************)
\* Its return values, the catalog files it read, and the state of the
\* one-time wildcard index after it.
HealthScript(script, useOpenLibs, err, reads, done, cached) ==
    [script |-> script, useOpenLibs |-> useOpenLibs, err |-> err, reads |-> reads,
     done |-> done, cached |-> cached]

\* BuiltInHealthScript asking the wildcard directories before the exact script.
BuiltInHealthScriptGlobFirst(cat, done, cached, key) ==
    LET builtIn == getPredefinedLuaScripts(cat, key, healthScriptFile)
        glob == getWildcardBuiltInHealthOverrideLua(cat, done, cached, key)
    IN  IF glob.err # ""
        THEN HealthScript(EmptyScript, FALSE, glob.err, glob.reads,
                          glob.globs.done, glob.globs.cached)
        ELSE IF glob.script # EmptyScript
        THEN HealthScript(glob.script, TRUE, "", glob.reads,
                          glob.globs.done, glob.globs.cached)
        ELSE IF builtIn.err = ""
        THEN HealthScript(builtIn.script, TRUE, "", builtIn.reads,
                          glob.globs.done, glob.globs.cached)
        ELSE HealthScript(EmptyScript, FALSE, "", builtIn.reads \cup glob.reads,
                          glob.globs.done, glob.globs.cached)

\* The built-in part of GetHealthScript: the exact script, else the first
\* wildcard directory that matches, else no script.
BuiltInHealthScript(cat, done, cached, key) ==
    LET builtIn == getPredefinedLuaScripts(cat, key, healthScriptFile)
        glob == getWildcardBuiltInHealthOverrideLua(cat, done, cached, key)
    IN  IF builtIn.err = ""
        THEN HealthScript(builtIn.script, TRUE, "", builtIn.reads, done, cached)
        ELSE IF glob.err # ""
        THEN HealthScript(EmptyScript, FALSE, glob.err, builtIn.reads \cup glob.reads,
                          glob.globs.done, glob.globs.cached)
        ELSE IF glob.script # EmptyScript
        THEN HealthScript(glob.script, TRUE, "", builtIn.reads \cup glob.reads,
                          glob.globs.done, glob.globs.cached)
        ELSE HealthScript(EmptyScript, FALSE, "", builtIn.reads \cup glob.reads,
                          glob.globs.done, glob.globs.cached)

\* GetHealthScript asking the wildcard overrides before the exact one.
GetHealthScriptWildcardFirst(ov, cat, done, cached, order, g) ==
    LET key == GetConfigMapKey(g)
        wildcard == getWildcardHealthOverrideLua(ov, order, g)
    IN  IF wildcard.script # EmptyScript
        THEN HealthScript(wildcard.script, wildcard.useOpenLibs, "", {}, done, cached)
        ELSE IF key \in DOMAIN ov /\ ov[key].HealthLua # EmptyScript
        THEN HealthScript(ov[key].HealthLua, ov[key].UseOpenLibs, "", {}, done, cached)
        ELSE BuiltInHealthScript(cat, done, cached, key)

GetHealthScript(ov, cat, done, cached, order, g) ==
    LET key == GetConfigMapKey(g)
        wildcard == getWildcardHealthOverrideLua(ov, order, g)
    IN  IF key \in DOMAIN ov /\ ov[key].HealthLua # EmptyScript
        THEN HealthScript(ov[key].HealthLua, ov[key].UseOpenLibs, "", {}, done, cached)
        ELSE IF wildcard.script # EmptyScript
        THEN HealthScript(wildcard.script, wildcard.useOpenLibs, "", {}, done, cached)
        ELSE BuiltInHealthScript(cat, done, cached, key)

(***************************************************************************)
(* ExecuteHealthLua and GetResourceHealth.                                 *)
(***************************************************************************)
HealthStatus(status, message) == [Status |-> status, Message |-> message]
ZeroHealthStatus == HealthStatus("", "")
NoHealthStatus == [Status |-> "nil", Message |-> "nil"]
invalidHealthStatus == "Lua returned an invalid health status"

\* isValidHealthStatusCode taking every status code for valid.
isValidHealthStatusCodeAny(statusCode) == TRUE

isValidHealthStatusCode(statusCode) ==
    statusCode \in {"Unknown", "Progressing", "Suspended", "Healthy", "Degraded", "Missing"}

HealthResult(status, err) == [status |-> status, err |-> err]

\* json.Unmarshal into a HealthStatus fails with an UnmarshalTypeError on an
\* array and on a status or message that is no string.
DecodesAsHealthStatus(json) ==
    /\ json.t = "map"
    /\ \A k \in DOMAIN json.m \cap {"status", "message"} : json.m[k].t \in {"string", "null"}

HealthField(json, k) ==
    IF k \in DOMAIN json.m /\ json.m[k].t = "string" THEN json.m[k].v ELSE ""

\* ExecuteHealthLua taking a returned nil for a value of the wrong type.
ExecuteHealthLuaNilIsError(o, script) ==
    LET run == Eval(script, o)
        json == Encode(run.val)
        healthStatus == HealthStatus(HealthField(json, "status"), HealthField(json, "message"))
    IN  IF run.err # "" THEN HealthResult(NoHealthStatus, run.err)
        ELSE IF run.val.t = "table"
        THEN IF json = EncodeError THEN HealthResult(NoHealthStatus, "encode")
             ELSE IF ~DecodesAsHealthStatus(json) THEN HealthResult(ZeroHealthStatus, "")
             ELSE IF ~isValidHealthStatusCode(healthStatus.Status)
             THEN HealthResult(HealthStatus("Unknown", invalidHealthStatus), "")
             ELSE HealthResult(healthStatus, "")
        ELSE HealthResult(NoHealthStatus, incorrectReturnType(TypeName(run.val)))

\* ExecuteHealthLua returning the decoded status without the check of its code.
ExecuteHealthLuaUnchecked(o, script) ==
    LET run == Eval(script, o)
        json == Encode(run.val)
        healthStatus == HealthStatus(HealthField(json, "status"), HealthField(json, "message"))
    IN  IF run.err # "" THEN HealthResult(NoHealthStatus, run.err)
        ELSE IF run.val.t = "table"
        THEN IF json = EncodeError THEN HealthResult(NoHealthStatus, "encode")
             ELSE IF ~DecodesAsHealthStatus(json) THEN HealthResult(ZeroHealthStatus, "")
             ELSE HealthResult(healthStatus, "")
        ELSE IF run.val.t = "nil" THEN HealthResult(ZeroHealthStatus, "")
        ELSE HealthResult(NoHealthStatus, incorrectReturnType(TypeName(run.val)))

\* ExecuteHealthLua taking every value that is no table for nil.
ExecuteHealthLuaAnyValue(o, script) ==
    LET run == Eval(script, o)
        json == Encode(run.val)
        healthStatus == HealthStatus(HealthField(json, "status"), HealthField(json, "message"))
    IN  IF run.err # "" THEN HealthResult(NoHealthStatus, run.err)
        ELSE IF run.val.t = "table"
        THEN IF json = EncodeError THEN HealthResult(NoHealthStatus, "encode")
             ELSE IF ~DecodesAsHealthStatus(json) THEN HealthResult(ZeroHealthStatus, "")
             ELSE IF ~isValidHealthStatusCode(healthStatus.Status)
             THEN HealthResult(HealthStatus("Unknown", invalidHealthStatus), "")
             ELSE HealthResult(healthStatus, "")
        ELSE HealthResult(ZeroHealthStatus, "")

ExecuteHealthLua(o, script) ==
    LET run == Eval(script, o)
        json == Encode(run.val)
        healthStatus == HealthStatus(HealthField(json, "status"), HealthField(json, "message"))
    IN  IF run.err # "" THEN HealthResult(NoHealthStatus, run.err)
        ELSE IF run.val.t = "table"
        THEN IF json = EncodeError THEN HealthResult(NoHealthStatus, "encode")
             ELSE IF ~DecodesAsHealthStatus(json) THEN HealthResult(ZeroHealthStatus, "")
             ELSE IF ~isValidHealthStatusCode(healthStatus.Status)
             THEN HealthResult(HealthStatus("Unknown", invalidHealthStatus), "")
             ELSE HealthResult(healthStatus, "")
        ELSE IF run.val.t = "nil" THEN HealthResult(ZeroHealthStatus, "")
        ELSE HealthResult(NoHealthStatus, incorrectReturnType(TypeName(run.val)))

GetResourceHealth(ov, cat, done, cached, order, g, o) ==
    LET found == GetHealthScript(ov, cat, done, cached, order, g)
    IN  IF found.err # "" THEN HealthResult(NoHealthStatus, found.err)
        ELSE IF found.script = EmptyScript THEN HealthResult(NoHealthStatus, "")
        ELSE ExecuteHealthLua(o, found.script)

(***************************************************************************)
(* GetResourceActionDiscovery and GetResourceAction.                       *)
(***************************************************************************)
\* key + "/actions/" and key + "/actions/" + name, as filepath.Join cleans them.
ActionsDir(key) == key \o <<"/", "actions">>
ActionDir(key, actionName) == key \o <<"/", "actions", "/", actionName>>

Discovery(scripts, err, reads) == [scripts |-> scripts, err |-> err, reads |-> reads]

\* GetResourceActionDiscovery appending the built-in script whatever
\* MergeBuiltinActions says.
GetResourceActionDiscoveryAlwaysMerges(ov, cat, g) ==
    LET key == GetConfigMapKey(g)
        configured == key \in DOMAIN ov /\ ov[key].Actions.yaml # ""
        actions == ov[key].Actions
        discoveryScripts == IF configured THEN <<actions.ActionDiscoveryLua>> ELSE <<>>
        builtIn == getPredefinedLuaScripts(cat, ActionsDir(key), actionDiscoveryScriptFile)
    IN  IF configured /\ actions.yaml = "invalid"
        THEN Discovery(<<>>, "actions", {})
        ELSE IF builtIn.err # ""
        THEN Discovery(discoveryScripts, "", builtIn.reads)
        ELSE Discovery(discoveryScripts \o <<builtIn.script>>, "", builtIn.reads)

GetResourceActionDiscovery(ov, cat, g) ==
    LET key == GetConfigMapKey(g)
        configured == key \in DOMAIN ov /\ ov[key].Actions.yaml # ""
        actions == ov[key].Actions
        discoveryScripts == IF configured THEN <<actions.ActionDiscoveryLua>> ELSE <<>>
        builtIn == getPredefinedLuaScripts(cat, ActionsDir(key), actionDiscoveryScriptFile)
    IN  IF configured /\ actions.yaml = "invalid"
        THEN Discovery(<<>>, "actions", {})
        ELSE IF configured /\ ~actions.MergeBuiltinActions
        THEN Discovery(<<actions.ActionDiscoveryLua>>, "", {})
        ELSE IF builtIn.err # ""
        THEN Discovery(discoveryScripts, "", builtIn.reads)
        ELSE Discovery(discoveryScripts \o <<builtIn.script>>, "", builtIn.reads)

ResourceActionDefinition(name, actionLua) == [Name |-> name, ActionLua |-> actionLua]
NoDefinition == ResourceActionDefinition("", EmptyScript)

NamedAction(definition, err, reads) ==
    [definition |-> definition, err |-> err, reads |-> reads]

\* GetResourceAction returning the last definition of the name.
GetResourceActionLastDefinition(ov, cat, g, actionName) ==
    LET key == GetConfigMapKey(g)
        configured == key \in DOMAIN ov /\ ov[key].Actions.yaml # ""
        definitions == ov[key].Actions.Definitions
        hits == {i \in 1..Len(definitions) : definitions[i].Name = actionName}
        last == CHOOSE i \in hits : \A j \in hits : i >= j
        builtIn == getPredefinedLuaScripts(cat, ActionDir(key, actionName), actionScriptFile)
    IN  IF configured /\ ov[key].Actions.yaml = "invalid"
        THEN NamedAction(NoDefinition, "actions", {})
        ELSE IF configured /\ hits # {}
        THEN NamedAction(definitions[last], "", {})
        ELSE IF builtIn.err # ""
        THEN NamedAction(NoDefinition, builtIn.err, builtIn.reads)
        ELSE NamedAction(ResourceActionDefinition(actionName, builtIn.script), "",
                         builtIn.reads)

\* GetResourceAction that looks for a built-in action only when the actions
\* block requests merging the built-in actions.
GetResourceActionOnlyMerged(ov, cat, g, actionName) ==
    LET key == GetConfigMapKey(g)
        configured == key \in DOMAIN ov /\ ov[key].Actions.yaml # ""
        definitions == ov[key].Actions.Definitions
        hits == {i \in 1..Len(definitions) : definitions[i].Name = actionName}
        first == CHOOSE i \in hits : \A j \in hits : i <= j
        builtIn == getPredefinedLuaScripts(cat, ActionDir(key, actionName), actionScriptFile)
    IN  IF configured /\ ov[key].Actions.yaml = "invalid"
        THEN NamedAction(NoDefinition, "actions", {})
        ELSE IF configured /\ hits # {}
        THEN NamedAction(definitions[first], "", {})
        ELSE IF configured /\ ~ov[key].Actions.MergeBuiltinActions
        THEN NamedAction(NoDefinition, "errScriptDoesNotExist", {})
        ELSE IF builtIn.err # ""
        THEN NamedAction(NoDefinition, builtIn.err, builtIn.reads)
        ELSE NamedAction(ResourceActionDefinition(actionName, builtIn.script), "",
                         builtIn.reads)

GetResourceAction(ov, cat, g, actionName) ==
    LET key == GetConfigMapKey(g)
        configured == key \in DOMAIN ov /\ ov[key].Actions.yaml # ""
        definitions == ov[key].Actions.Definitions
        hits == {i \in 1..Len(definitions) : definitions[i].Name = actionName}
        first == CHOOSE i \in hits : \A j \in hits : i <= j
        builtIn == getPredefinedLuaScripts(cat, ActionDir(key, actionName), actionScriptFile)
    IN  IF configured /\ ov[key].Actions.yaml = "invalid"
        THEN NamedAction(NoDefinition, "actions", {})
        ELSE IF configured /\ hits # {}
        THEN NamedAction(definitions[first], "", {})
        ELSE IF builtIn.err # ""
        THEN NamedAction(NoDefinition, builtIn.err, builtIn.reads)
        ELSE NamedAction(ResourceActionDefinition(actionName, builtIn.script), "",
                         builtIn.reads)

(***************************************************************************)
(* ExecuteResourceActionDiscovery: one step per script of the list.        *)
(***************************************************************************)
ResourceAction(name, disabled) == [Name |-> name, Disabled |-> disabled]

isActionDisabled(value) ==
    /\ value.t = "map"
    /\ "disabled" \in DOMAIN value.m
    /\ value.m["disabled"].t = "bool"
    /\ value.m["disabled"].v

emptyResourceActionFromLua(value) == value.t = "list"

\* noAvailableActions taking no result for empty.
noAvailableActionsNever(json) == FALSE

noAvailableActions(json) == json = EmptyList

\* json.Unmarshal of an entry's value into a ResourceAction fails unless the
\* value is an object whose name is a string and whose disabled is a boolean.
DecodesAsResourceAction(value) ==
    /\ value.t = "map"
    /\ "name" \in DOMAIN value.m => value.m["name"].t = "string"
    /\ "disabled" \in DOMAIN value.m => value.m["disabled"].t = "bool"

\* The ResourceAction the loop body builds for one entry: the key and the
\* disabled flag first, then the fields that the value's JSON sets.
EntryAction(key, value) ==
    IF emptyResourceActionFromLua(value)
    THEN ResourceAction(key, isActionDisabled(value))
    ELSE ResourceAction(
            IF "name" \in DOMAIN value.m THEN value.m["name"].v ELSE key,
            IF "disabled" \in DOMAIN value.m
            THEN value.m["disabled"].v
            ELSE isActionDisabled(value))

\* MergeActions letting a later script overwrite an earlier one's entry.
MergeActionsOverwriting(availableActionsMap, actionsMap) ==
    [key \in DOMAIN availableActionsMap \cup DOMAIN actionsMap |->
        IF /\ key \in DOMAIN actionsMap
           /\ \/ key \notin DOMAIN availableActionsMap
              \/ emptyResourceActionFromLua(actionsMap[key])
              \/ DecodesAsResourceAction(actionsMap[key])
        THEN EntryAction(key, actionsMap[key])
        ELSE availableActionsMap[key]]

\* The inner loop over one script's actionsMap: a key that availableActionsMap
\* holds already is skipped.
MergeActions(availableActionsMap, actionsMap) ==
    [key \in DOMAIN availableActionsMap \cup DOMAIN actionsMap |->
        IF key \in DOMAIN availableActionsMap
        THEN availableActionsMap[key]
        ELSE EntryAction(key, actionsMap[key])]

\* An entry that is new to availableActionsMap and fails to decode ends the call.
MergeFails(availableActionsMap, actionsMap) ==
    \E key \in DOMAIN actionsMap \ DOMAIN availableActionsMap :
        /\ ~emptyResourceActionFromLua(actionsMap[key])
        /\ ~DecodesAsResourceAction(actionsMap[key])

\* The returned slice, in no particular order.
RECURSIVE ActionsOf(_)
ActionsOf(availableActionsMap) ==
    IF DOMAIN availableActionsMap = {} THEN EmptyBag
    ELSE LET key == CHOOSE k \in DOMAIN availableActionsMap : TRUE
             rest == [k \in DOMAIN availableActionsMap \ {key} |-> availableActionsMap[k]]
         IN  SetToBag({availableActionsMap[key]}) (+) ActionsOf(rest)

Running(scripts) == [pc |-> "loop", scripts |-> scripts, i |-> 1, acc |-> <<>>]
Finished(scripts, acc, err) ==
    [pc |-> "done", scripts |-> scripts, acc |-> acc, err |-> err,
     actions |-> IF err = "" THEN ActionsOf(acc) ELSE EmptyBag]

\* DiscoveryEntry running the loop on an empty list of scripts as well.
DiscoveryEntryAcceptsNone(scripts) ==
    IF Len(scripts) = 0
    THEN Finished(scripts, <<>>, "")
    ELSE Running(scripts)

\* The entry of the call.
DiscoveryEntry(scripts) ==
    IF Len(scripts) = 0
    THEN Finished(scripts, <<>>, "no action discovery script provided")
    ELSE Running(scripts)

\* One iteration of the loop over the scripts.
DiscoveryIteration(d, o) ==
    LET run == Eval(d.scripts[d.i], o)
        json == Encode(run.val)
        continue == IF d.i = Len(d.scripts)
                    THEN Finished(d.scripts, d.acc, "")
                    ELSE [d EXCEPT !.i = d.i + 1]
        merged == MergeActions(d.acc, json.m)
    IN  IF run.err # "" THEN Finished(d.scripts, d.acc, run.err)
        ELSE IF run.val.t # "table" THEN Finished(d.scripts, d.acc, incorrectReturnType(TypeName(run.val)))
        ELSE IF json = EncodeError THEN Finished(d.scripts, d.acc, "encode")
        ELSE IF noAvailableActions(json) THEN continue
        ELSE IF json.t # "map" THEN Finished(d.scripts, d.acc, "decode")
        ELSE IF MergeFails(d.acc, json.m) THEN Finished(d.scripts, d.acc, "decode")
        ELSE IF d.i = Len(d.scripts)
        THEN Finished(d.scripts, merged, "")
        ELSE [d EXCEPT !.i = d.i + 1, !.acc = merged]

\* The whole call on a list of scripts: the loop run to its end.
RECURSIVE RunDiscovery(_, _)
RunDiscovery(d, o) == IF d.pc = "done" THEN d ELSE RunDiscovery(DiscoveryIteration(d, o), o)
ExecuteResourceActionDiscovery(o, scripts) == RunDiscovery(DiscoveryEntry(scripts), o)

(***************************************************************************)
(* runLuaWithResourceActionParameters, step by step.  Each caller holds    *)
(* its own LState `l`: the globals of its interpreter, the instruction it  *)
(* is at and the context whose deadline ends the run.                      *)
(***************************************************************************)
Callers == {"c1", "c2"}

Invocation(pc, script, o, next, expired, globals, ret) ==
    [pc |-> pc, script |-> script, o |-> o, next |-> next, expired |-> expired,
     globals |-> globals, ret |-> ret]
NotCalled == Invocation("idle", EmptyScript, HNull, 1, FALSE, <<>>, Returned(LNil))
NoCalls == [p \in Callers |-> NotCalled]

\* l.SetGlobal and l.GetGlobal.
SetGlobal(globals, name, value) ==
    [k \in DOMAIN globals \cup {name} |-> IF k = name THEN value ELSE globals[k]]
GetGlobal(globals, name) == IF name \in DOMAIN globals THEN globals[name] ELSE LNil

\* lua.NewState handing out the interpreter of the caller's previous call.
NewStateReused(previous) == previous

\* lua.NewState: an interpreter with no global of any other call.
NewState(previous) == <<>>

\* ctx.Done() never closing: no deadline set on the interpreter.
ContextNeverDone(v) == FALSE

\* ctx.Done() of the context set with l.SetContext: closed once the deadline
\* of one second has passed.
ContextDone(v) == v.expired

\* The instructions of the scripts that are run step by step.
Program(script) ==
    CASE script.body = "return obj" -> <<[op |-> "return_global", name |-> "obj"]>>
      [] script.body = "obj = nil; return obj" ->
            <<[op |-> "set_global", name |-> "obj", val |-> LNil],
              [op |-> "return_global", name |-> "obj"]>>
      [] script.body = "if seen then return 'again' end; seen = true; return 'first'" ->
            <<[op |-> "return_if_set", name |-> "seen", val |-> LString("again")],
              [op |-> "set_global", name |-> "seen", val |-> LBool(TRUE)],
              [op |-> "return_value", val |-> LString("first")]>>
      [] script.body = "while true do end" -> <<[op |-> "jump", to |-> 1]>>
      [] script.body = "error('failed')" -> <<[op |-> "error"]>>

SandboxScripts ==
    {Script(b, <<"user">>) : b \in {"return obj", "obj = nil; return obj",
        "if seen then return 'again' end; seen = true; return 'first'",
        "while true do end", "error('failed')"}}
SandboxObjects == {HMap(WithKind(<<>>)), HMap(WithKind([k \in {"a"} |-> EmptyMap]))}

\* Lines 76-115: a new interpreter, the context with its deadline, the globals
\* actionParams and obj.
Prepare(v, script, o) ==
    Invocation("running", script, o, 1, FALSE,
               SetGlobal(SetGlobal(NewState(v.globals), "actionParams", NoFields),
                         "obj", decodeValue(o)),
               Returned(LNil))

Return(v, r) == [v EXCEPT !.pc = "returned", !.ret = r]

\* One instruction of l.DoString(script).
ExecInstruction(v) ==
    LET ins == Program(v.script)[v.next]
    IN  CASE ins.op = "return_global" -> Return(v, Returned(GetGlobal(v.globals, ins.name)))
          [] ins.op = "return_value" -> Return(v, Returned(ins.val))
          [] ins.op = "set_global" ->
                [v EXCEPT !.globals = SetGlobal(v.globals, ins.name, ins.val),
                          !.next = v.next + 1]
          [] ins.op = "return_if_set" ->
                IF GetGlobal(v.globals, ins.name) \in {LNil, LBool(FALSE)}
                THEN [v EXCEPT !.next = v.next + 1]
                ELSE Return(v, Returned(ins.val))
          [] ins.op = "jump" -> [v EXCEPT !.next = ins.to]
          [] ins.op = "error" -> Return(v, Failed("run"))

OthersUnchanged ==
    UNCHANGED <<overrides, catalog, gvk, obj, onceDone, globHealthScriptPaths,
                call, prevHealth, disc, once>>

Invoke(p) ==
    /\ vm[p].pc \in {"idle", "returned"}
    /\ \E script \in SandboxScripts, o \in SandboxObjects :
          vm' = [vm EXCEPT ![p] = Prepare(vm[p], script, o)]
    /\ OthersUnchanged

\* The interpreter runs the next instruction unless the context is done.
Step(p) ==
    /\ vm[p].pc = "running"
    /\ ~ContextDone(vm[p])
    /\ vm' = [vm EXCEPT ![p] = ExecInstruction(vm[p])]
    /\ OthersUnchanged

\* The deadline of the call's context passes.
Expire(p) ==
    /\ vm[p].pc = "running"
    /\ ~vm[p].expired
    /\ vm' = [vm EXCEPT ![p].expired = TRUE]
    /\ OthersUnchanged

\* The interpreter finds the context done and DoString returns its error.
Abort(p) ==
    /\ vm[p].pc = "running"
    /\ ContextDone(vm[p])
    /\ vm' = [vm EXCEPT ![p] = Return(vm[p], Failed("timeout"))]
    /\ OthersUnchanged

(***************************************************************************)
(* getGlobHealthScriptPaths, step by step, under concurrent callers.       *)
(* sync.Once.Do loads `done`; when it is unset the caller takes the mutex  *)
(* of the Once, loads `done` again, runs the function, stores `done` and   *)
(* releases the mutex.  `err` is a variable of each call.                  *)
(***************************************************************************)
\* One call: where it is, its local err and what it returned.
Getter(pc, err, ret) == [pc |-> pc, err |-> err, ret |-> ret]
NotGetting == Getter("idle", "", [paths |-> <<>>, err |-> ""])

\* The Once's mutex holder ("" when free), how many times the function given
\* to Do has run, and the calls.
NoGetters == [m |-> "", walks |-> 0, of |-> [p \in Callers |-> NotGetting]]

\* Mutex.Lock that never waits.
MutexNeverHeld(o) == TRUE

\* Mutex.Lock returns only while no caller holds the mutex.
MutexFree(o) == o.m = ""

At(p, pc) == once.of[p].pc = pc
GoTo(p, pc) == [once EXCEPT !.of[p].pc = pc]

\* `var err error` and the call of Do.
Call(p) ==
    /\ once.of[p].pc \in {"idle", "returned"}
    /\ once' = [once EXCEPT !.of[p] = Getter("do", "", NotGetting.ret)]
    /\ UNCHANGED <<overrides, catalog, gvk, obj, onceDone, globHealthScriptPaths,
                   call, prevHealth, disc, vm>>

\* Do: the load of `done` that decides between returning and the slow path.
Do(p) ==
    /\ At(p, "do")
    /\ once' = GoTo(p, IF onceDone THEN "after" ELSE "lock")
    /\ UNCHANGED <<overrides, catalog, gvk, obj, onceDone, globHealthScriptPaths,
                   call, prevHealth, disc, vm>>

\* doSlow: Lock, and the second load of `done` under the mutex.
Lock(p) ==
    /\ At(p, "lock")
    /\ MutexFree(once)
    /\ once' = [once EXCEPT !.m = p, !.of[p].pc = IF onceDone THEN "unlock" ELSE "walk"]
    /\ UNCHANGED <<overrides, catalog, gvk, obj, onceDone, globHealthScriptPaths,
                   call, prevHealth, disc, vm>>

\* The function given to Do: the walk, and on success the sort and the
\* assignment of the package variable.
Walk(p) ==
    /\ At(p, "walk")
    /\ once' = [once EXCEPT !.walks = @ + 1, !.of[p].pc = "store",
                            !.of[p].err = IF WalkFails(catalog) THEN "walk" ELSE ""]
    /\ globHealthScriptPaths' = IF WalkFails(catalog)
                                THEN globHealthScriptPaths
                                ELSE Sorted(WildcardDirs(catalog))
    /\ UNCHANGED <<overrides, catalog, gvk, obj, onceDone, call, prevHealth, disc, vm>>

\* doSlow's deferred store of `done`.
StoreDone(p) ==
    /\ At(p, "store")
    /\ onceDone' = TRUE
    /\ once' = GoTo(p, "unlock")
    /\ UNCHANGED <<overrides, catalog, gvk, obj, globHealthScriptPaths,
                   call, prevHealth, disc, vm>>

\* doSlow's deferred Unlock.
Unlock(p) ==
    /\ At(p, "unlock")
    /\ once' = [once EXCEPT !.m = "", !.of[p].pc = "after"]
    /\ UNCHANGED <<overrides, catalog, gvk, obj, onceDone, globHealthScriptPaths,
                   call, prevHealth, disc, vm>>

\* After Do: the error of this call's err, or the package variable.
ReturnPaths(p) ==
    /\ At(p, "after")
    /\ once' = [once EXCEPT !.of[p].pc = "returned",
                            !.of[p].ret = IF once.of[p].err # ""
                                          THEN [paths |-> <<>>, err |-> "walk"]
                                          ELSE [paths |-> globHealthScriptPaths,
                                                err |-> ""]]
    /\ UNCHANGED <<overrides, catalog, gvk, obj, onceDone, globHealthScriptPaths,
                   call, prevHealth, disc, vm>>

(***************************************************************************)
(* Inputs of the resolution specifications.                                *)
(***************************************************************************)
U1 == Script("return {status='Healthy'}", <<"user", "1">>)
U2 == Script("return {status='Progressing', message='wait'}", <<"user", "2">>)
D1 == Script("return {restart={}}", <<"user", "discovery">>)
A1 == Script("return obj", <<"user", "action", "1">>)
A2 == Script("return obj", <<"user", "action", "2">>)

GroupG == <<"g">>
KindK == <<"K">>
KindKx == <<"K", "x">>
GVKs == {[Group |-> <<>>, Kind |-> KindK], [Group |-> GroupG, Kind |-> KindK],
         [Group |-> GroupG, Kind |-> KindKx]}

\* Override keys: "g/K", "g/*" and "*".
OverrideKeys == {<<"g", "/", "K">>, <<"g", "/", "*">>, <<"*">>}

\* Mappings of at most MaxOverrides keys of K to entries of E.
OverridesOver(K, E) ==
    UNION {[D -> E] : D \in {S \in SUBSET K : Cardinality(S) <= MaxOverrides}}

HealthOverrides ==
    OverridesOver(OverrideKeys,
        {ResourceOverride(h, u, NoActions) : h \in {EmptyScript, U1, U2}, u \in BOOLEAN})

\* Catalog directories with a health.lua: "g/K", "g/_", "g/K_" and "_/K".
HealthDirs == {<<"g", "/", "K">>, <<"g", "/", "_">>, <<"g", "/", "K", "_">>,
               <<"_", "/", "K">>}
HealthCatalogs == SUBSET {File(d, healthScriptFile) : d \in HealthDirs}

SampleObject == HMap(WithKind([k \in {"a"} |-> EmptyMap]))

ActionNames == {"restart", "pause"}
DefinitionLists ==
    {<<>>,
     <<ResourceActionDefinition("restart", A1)>>,
     <<ResourceActionDefinition("restart", A1), ResourceActionDefinition("restart", A2)>>,
     <<ResourceActionDefinition("pause", A1), ResourceActionDefinition("restart", A2)>>}
ActionBlocks ==
    {NoActions, InvalidActions}
    \cup {ActionsBlock("ok", D1, d, m) : d \in DefinitionLists, m \in BOOLEAN}
ActionOverrides ==
    OverridesOver({<<"g", "/", "K">>, <<"g", "/", "*">>},
        {ResourceOverride(h, FALSE, a) : h \in {EmptyScript, U1}, a \in ActionBlocks})
ActionCatalogs ==
    SUBSET ({File(<<"g", "/", "_">>, healthScriptFile),
             File(ActionsDir(<<"g", "/", "K">>), actionDiscoveryScriptFile)}
            \cup {File(ActionDir(<<"g", "/", "K">>, n), actionScriptFile) : n \in ActionNames})

DiscoveryScripts ==
    {Script(b, <<"user">>) : b \in {"return {restart={}}",
        "return {restart={disabled=true}, pause={}}", "return {restart={disabled=false}}",
        "return {pause={disabled=true}}", "return {restart={name='other'}}",
        "return {restart='text'}", "return {'restart'}", "return {}", "return nil", "return 'text'",
        "error('failed')"}}

(***************************************************************************)
(* The calls.  A caller makes one call at a time; `call` keeps the last    *)
(* call with what it returned.                                             *)
(***************************************************************************)
Idle == [op |-> "none"]
NoGVK == [Group |-> <<>>, Kind |-> <<"K">>]
NoDisc == [pc |-> "idle"]

Returns(h) == [script |-> h.script, useOpenLibs |-> h.useOpenLibs, err |-> h.err]

GetHealthScriptCall ==
    /\ disc.pc = "idle"
    /\ \E order \in IterationOrders(DOMAIN overrides) :
          LET h == GetHealthScript(overrides, catalog, onceDone, globHealthScriptPaths,
                                   order, gvk)
          IN  /\ call' = [op |-> "GetHealthScript", ret |-> Returns(h), reads |-> h.reads]
              /\ onceDone' = h.done
              /\ globHealthScriptPaths' = h.cached
    /\ prevHealth' = IF call.op = "GetHealthScript" THEN call.ret ELSE prevHealth
    /\ UNCHANGED <<overrides, catalog, gvk, obj, vm, once, disc>>

GetResourceHealthCall ==
    /\ disc.pc = "idle"
    /\ \E order \in IterationOrders(DOMAIN overrides) :
          LET h == GetHealthScript(overrides, catalog, onceDone, globHealthScriptPaths,
                                   order, gvk)
          IN  /\ call' = [op |-> "GetResourceHealth", found |-> Returns(h),
                          ret |-> GetResourceHealth(overrides, catalog, onceDone,
                                      globHealthScriptPaths, order, gvk, obj)]
              /\ onceDone' = h.done
              /\ globHealthScriptPaths' = h.cached
    /\ UNCHANGED <<overrides, catalog, gvk, obj, vm, once, prevHealth, disc>>

GetResourceActionDiscoveryCall ==
    /\ disc.pc = "idle"
    /\ call' = [op |-> "GetResourceActionDiscovery",
                ret |-> GetResourceActionDiscovery(overrides, catalog, gvk)]
    /\ UNCHANGED <<overrides, catalog, gvk, obj, vm, once, onceDone, globHealthScriptPaths,
                   prevHealth, disc>>

GetResourceActionCall ==
    /\ disc.pc = "idle"
    /\ \E actionName \in ActionNames :
          call' = [op |-> "GetResourceAction", actionName |-> actionName,
                   ret |-> GetResourceAction(overrides, catalog, gvk, actionName)]
    /\ UNCHANGED <<overrides, catalog, gvk, obj, vm, once, onceDone, globHealthScriptPaths,
                   prevHealth, disc>>

\* ExecuteResourceActionDiscovery on the scripts that GetResourceActionDiscovery
\* has just returned.
ExecuteDiscoveredScripts ==
    /\ disc.pc = "idle"
    /\ call.op = "GetResourceActionDiscovery"
    /\ call.ret.err = ""
    /\ disc' = DiscoveryEntry(call.ret.scripts)
    /\ UNCHANGED <<overrides, catalog, gvk, obj, vm, once, onceDone, globHealthScriptPaths,
                   call, prevHealth>>

\* ExecuteResourceActionDiscovery on any list of scripts.
ExecuteResourceActionDiscoveryCall ==
    /\ disc.pc = "idle"
    /\ \E scripts \in SeqsUpTo(DiscoveryScripts, MaxScripts) :
          disc' = DiscoveryEntry(scripts)
    /\ UNCHANGED <<overrides, catalog, gvk, obj, vm, once, onceDone, globHealthScriptPaths,
                   call, prevHealth>>

DiscoveryStep ==
    /\ disc.pc = "loop"
    /\ disc' = DiscoveryIteration(disc, obj)
    /\ UNCHANGED <<overrides, catalog, gvk, obj, vm, once, onceDone, globHealthScriptPaths,
                   call, prevHealth>>

DiscoveryReturn ==
    /\ disc.pc = "done"
    /\ call' = [op |-> "ExecuteResourceActionDiscovery", scripts |-> disc.scripts,
                ret |-> [actions |-> disc.actions, err |-> disc.err]]
    /\ disc' = NoDisc
    /\ UNCHANGED <<overrides, catalog, gvk, obj, vm, once, onceDone, globHealthScriptPaths,
                   prevHealth>>

InitWith(ovs, cats, gvks) ==
    /\ overrides \in ovs
    /\ catalog \in cats
    /\ gvk \in gvks
    /\ obj = SampleObject
    /\ onceDone = FALSE
    /\ globHealthScriptPaths = <<>>
    /\ call = Idle
    /\ prevHealth = Idle
    /\ disc = NoDisc
    /\ vm = NoCalls
    /\ once = NoGetters

\* Health resolution.
Init == InitWith(HealthOverrides, HealthCatalogs, GVKs)
Next == GetHealthScriptCall \/ GetResourceHealthCall
Spec == Init /\ [][Next]_vars

\* Action resolution, with the discovery scripts it returns executed.
InitActions ==
    InitWith(ActionOverrides, ActionCatalogs,
             {[Group |-> <<>>, Kind |-> KindK], [Group |-> GroupG, Kind |-> KindK]})
NextActions ==
    \/ GetResourceHealthCall
    \/ GetResourceActionDiscoveryCall
    \/ GetResourceActionCall
    \/ ExecuteDiscoveredScripts
    \/ DiscoveryStep
    \/ DiscoveryReturn
SpecActions == InitActions /\ [][NextActions]_vars

\* Execution of discovery scripts: one call on every list of scripts.  A call
\* starts from an empty availableActionsMap and depends on nothing a previous
\* call left, so one call per list covers the successive calls too.
InitDiscovery == InitWith({<<>>}, {{}}, {NoGVK})
NextDiscovery ==
    \/ call = Idle /\ ExecuteResourceActionDiscoveryCall
    \/ DiscoveryStep
    \/ DiscoveryReturn
SpecDiscovery == InitDiscovery /\ [][NextDiscovery]_vars

\* Action execution.
InitExec ==
    /\ obj \in Objects
    /\ overrides = <<>>
    /\ catalog = {}
    /\ gvk = NoGVK
    /\ onceDone = FALSE
    /\ globHealthScriptPaths = <<>>
    /\ call = Idle
    /\ prevHealth = Idle
    /\ disc = NoDisc
    /\ vm = NoCalls
    /\ once = NoGetters

ExecuteResourceActionCall ==
    /\ disc.pc = "idle"
    /\ \E script \in ActionScripts :
          call' = [op |-> "ExecuteResourceAction", script |-> script,
                   ret |-> ExecuteResourceAction(obj, script),
                   heap |-> ExecuteResourceActionInPlace(obj, script)]
    /\ UNCHANGED <<overrides, catalog, gvk, obj, vm, once, onceDone, globHealthScriptPaths,
                   prevHealth, disc>>

NextExec == ExecuteResourceActionCall

SpecExec == InitExec /\ [][NextExec]_vars

\* Evaluation of health, discovery and action scripts.
HealthScripts ==
    {Script(b, <<"user">>) : b \in {"return {status='Healthy'}",
        "return {status='Progressing', message='wait'}", "return {status='Degraded'}",
        "return {status='Unknown'}", "return {status='Missing'}",
        "return {status='Suspended', message='paused'}",
        "return {status='Bogus', message='text'}", "return {message='text'}",
        "return {status=true}", "return {'Healthy'}", "return {}", "return nil",
        "return 'text'", "return true", "error('failed')", "while true do end"}}

EvalOverrides ==
    {<<>>} \cup {[k \in {<<"g", "/", "K">>} |-> ResourceOverride(h, FALSE, NoActions)] :
                    h \in HealthScripts}
EvalObjects == {SampleObject, HMap(WithKind(<<>>))}

InitEval ==
    /\ obj \in EvalObjects
    /\ overrides \in EvalOverrides
    /\ catalog = {}
    /\ gvk = [Group |-> GroupG, Kind |-> KindK]
    /\ onceDone = FALSE
    /\ globHealthScriptPaths = <<>>
    /\ call = Idle
    /\ prevHealth = Idle
    /\ disc = NoDisc
    /\ vm = NoCalls
    /\ once = NoGetters

ExecuteHealthLuaCall ==
    /\ disc.pc = "idle"
    /\ \E script \in HealthScripts :
          call' = [op |-> "ExecuteHealthLua", script |-> script,
                   ret |-> ExecuteHealthLua(obj, script),
                   heap |-> ExecuteWithoutCleaningInPlace(obj, script)]
    /\ UNCHANGED <<overrides, catalog, gvk, obj, vm, once, onceDone, globHealthScriptPaths,
                   prevHealth, disc>>

\* The whole of ExecuteResourceActionDiscovery as one step, on one script or none.
ExecuteResourceActionDiscoveryAtOnce ==
    /\ disc.pc = "idle"
    /\ \E scripts \in SeqsUpTo(DiscoveryScripts, 1) :
          LET d == ExecuteResourceActionDiscovery(obj, scripts)
          IN  call' = [op |-> "ExecuteResourceActionDiscovery", scripts |-> scripts,
                       ret |-> [actions |-> d.actions, err |-> d.err],
                       heap |-> ExecuteWithoutCleaningInPlace(obj, scripts)]
    /\ UNCHANGED <<overrides, catalog, gvk, obj, vm, once, onceDone, globHealthScriptPaths,
                   prevHealth, disc>>

NextEval ==
    \/ ExecuteHealthLuaCall
    \/ GetResourceHealthCall
    \/ ExecuteResourceActionCall
    \/ ExecuteResourceActionDiscoveryAtOnce
SpecEval == InitEval /\ [][NextEval]_vars

\* One of the three evaluations on every object of the domain.  A call
\* depends on nothing a previous call left, so one call per object covers
\* the successive calls too.
NextFrame ==
    /\ call = Idle
    /\ \/ ExecuteHealthLuaCall
       \/ ExecuteResourceActionCall
       \/ ExecuteResourceActionDiscoveryAtOnce
SpecFrame == InitExec /\ [][NextFrame]_vars

\* decodeValue on host values of every type.  The values of a type lie within
\* its width; those of the wide types are the ones a 32-bit integer holds.
SignedTypes == {"int", "int8", "int16", "int32", "int64"}
UnsignedTypes == {"uint", "uint8", "uint16", "uint32", "uint64"}
LargestOf(type) ==
    CASE type = "int8" -> 127
      [] type = "uint8" -> 255
      [] type = "int16" -> 32767
      [] type = "uint16" -> 65535
      [] OTHER -> 2147483647
HostNumbers ==
    {HNum(type, n) : type \in SignedTypes, n \in {-1, 0, 1}}
    \cup {HNum(type, n) : type \in UnsignedTypes, n \in {0, 1}}
    \cup {HNum(type, LargestOf(type)) : type \in SignedTypes \cup UnsignedTypes}
    \cup {HNum("float64", n) : n \in {-1, 0, 1}}
BridgeScalars ==
    HostNumbers \cup {HNull, HOther, HBool(TRUE), HBool(FALSE), HStr("s"),
                      [t |-> "json.Number", v |-> "1"]}
BridgeValues ==
    BridgeScalars
    \cup {HList(l) : l \in SeqsUpTo(HostNumbers \cup {HNull}, 1)}
    \cup {HMap(m) : m \in MapsOver({"a"}, HostNumbers \cup {HNull})}
InitBridge ==
    /\ obj \in BridgeValues
    /\ overrides = <<>>
    /\ catalog = {}
    /\ gvk = NoGVK
    /\ onceDone = FALSE
    /\ globHealthScriptPaths = <<>>
    /\ call = Idle
    /\ prevHealth = Idle
    /\ disc = NoDisc
    /\ vm = NoCalls
    /\ once = NoGetters
DecodeValueCall ==
    /\ call' = [op |-> "decodeValue", ret |-> decodeValue(obj)]
    /\ UNCHANGED <<overrides, catalog, gvk, obj, vm, once, onceDone, globHealthScriptPaths,
                   prevHealth, disc>>
NextBridge == DecodeValueCall
SpecBridge == InitBridge /\ [][NextBridge]_vars

\* Concurrent calls of the sandbox.  The scheduler runs every goroutine and
\* time passes, so each step that stays enabled is taken.
InitSandbox == InitWith({<<>>}, {{}}, {NoGVK})
NextSandbox == \E p \in Callers : Invoke(p) \/ Step(p) \/ Expire(p) \/ Abort(p)
SpecSandbox ==
    /\ InitSandbox
    /\ [][NextSandbox]_vars
    /\ \A p \in Callers : WF_vars(Step(p)) /\ WF_vars(Expire(p)) /\ WF_vars(Abort(p))

\* Concurrent callers of getGlobHealthScriptPaths.  Catalog directories with
\* a health.lua: "g/_", "_/K" and "g/[_", whose pattern is malformed.
OnceDirs == {<<"g", "/", "_">>, <<"_", "/", "K">>, <<"g", "/", "[", "_">>}
OnceCatalogs == SUBSET {File(d, healthScriptFile) : d \in OnceDirs}
InitOnce == InitWith({<<>>}, OnceCatalogs, {[Group |-> GroupG, Kind |-> KindK]})
NextOnce ==
    \E p \in Callers :
        \/ Call(p)
        \/ Do(p)
        \/ Lock(p)
        \/ Walk(p)
        \/ StoreDone(p)
        \/ Unlock(p)
        \/ ReturnPaths(p)
SpecOnce == InitOnce /\ [][NextOnce]_vars

(***************************************************************************)
(* Claims about action execution.                                          *)
(***************************************************************************)
\* Every key of `orig` that holds an empty map, at every depth of nested maps,
\* holds an empty map in `res` too.
RECURSIVE EmptyMapsKept(_, _)
EmptyMapsKept(orig, res) ==
    /\ res.t = "map"
    /\ \A k \in DOMAIN orig.m :
          orig.m[k].t = "map" =>
             /\ k \in DOMAIN res.m
             /\ IF orig.m[k] = EmptyMap
                THEN res.m[k] = EmptyMap
                ELSE EmptyMapsKept(orig.m[k], res.m[k])

\* Some key of `o`, below at least `d` nested maps, holds an empty map.
RECURSIVE HasEmptyMapAt(_, _)
HasEmptyMapAt(o, d) ==
    \E k \in DOMAIN o.m :
        \/ d = 0 /\ o.m[k] = EmptyMap
        \/ o.m[k].t = "map" /\ o.m[k] # EmptyMap /\ HasEmptyMapAt(o.m[k], IF d = 0 THEN 0 ELSE d - 1)

ReturnedUnchanged ==
    /\ call.op = "ExecuteResourceAction"
    /\ call.script.body = "return obj"

\* C1: when a legacy (patch) action script returns the object unchanged,
\* ExecuteResourceAction returns one Patch resource in which every key that
\* held an empty map in the original, at every depth of nested maps, holds an
\* empty map again and not the empty list of the structural encoding.
C1_CleaningRoundTrip ==
    ReturnedUnchanged =>
        /\ call.ret.err = ""
        /\ Len(call.ret.resources) = 1
        /\ call.ret.resources[1].K8SOperation = PatchOperation
        /\ EmptyMapsKept(obj, call.ret.resources[1].UnstructuredObj)

\* An object with an empty map below a nested map was returned unchanged and
\* cleaned, although the encoding had turned that empty map into a list.
C1_Witness ==
    /\ ReturnedUnchanged
    /\ HasEmptyMapAt(obj, 1)
    /\ ~EmptyMapsKept(obj, Encode(decodeValue(obj)))
    /\ call.ret.err = ""
    /\ EmptyMapsKept(obj, call.ret.resources[1].UnstructuredObj)

(***************************************************************************)
(* Claims about health resolution.                                         *)
(***************************************************************************)
Key == GetConfigMapKey(gvk)

\* The override of the exact key supplies a health script.
ExactHealth == Key \in DOMAIN overrides /\ overrides[Key].HealthLua # EmptyScript

\* The override keys that glob-match the key and supply a health script.
WildcardHealthKeys ==
    {k \in DOMAIN overrides : ArgoGlobMatch(k, Key) /\ overrides[k].HealthLua # EmptyScript}

ExactBuiltIn == File(Key, healthScriptFile)

\* The built-in wildcard directories whose pattern matches the key.
MatchingDirs ==
    {d \in WildcardDirs(catalog) : PathMatchUnvalidated(ReplaceAll(d, "_", "*"), Key)}

\* What GetHealthScript returns for the health script of override key k.
FromOverride(k) ==
    [script |-> overrides[k].HealthLua, useOpenLibs |-> overrides[k].UseOpenLibs,
     err |-> ""]

\* What GetHealthScript returns for a built-in file.
FromBuiltIn(file) == [script |-> Content(file), useOpenLibs |-> TRUE, err |-> ""]

NoScript == [script |-> EmptyScript, useOpenLibs |-> FALSE, err |-> ""]

HealthScriptCalled == call.op = "GetHealthScript"

\* C2: when the overrides hold an entry at the exact ResourceKey with a
\* non-empty health script, GetHealthScript returns that script with that
\* entry's UseOpenLibs flag and no error, whatever else matches.
C2_ExactOverrideWins ==
    HealthScriptCalled /\ ExactHealth => call.ret = FromOverride(Key)

\* The exact override won although a wildcard override with another script, the
\* exact built-in script and a built-in wildcard directory matched as well.
C2_Witness ==
    /\ HealthScriptCalled
    /\ ExactHealth
    /\ \E k \in WildcardHealthKeys : FromOverride(k) # FromOverride(Key)
    /\ ExactBuiltIn \in catalog
    /\ MatchingDirs # {}
    /\ call.ret = FromOverride(Key)

\* C3: when no exact override supplies a health script and some override key
\* glob-matches the ResourceKey with a non-empty health script, GetHealthScript
\* returns the script and the UseOpenLibs flag of one and the same such
\* override, and reads no built-in script.
C3_WildcardOverride ==
    HealthScriptCalled /\ ~ExactHealth /\ WildcardHealthKeys # {} =>
        /\ \E k \in WildcardHealthKeys : call.ret = FromOverride(k)
        /\ call.reads = {}

\* A wildcard override was returned although the exact override (with an empty
\* health script), a second wildcard override and the exact built-in script
\* were there.
C3_Witness ==
    /\ HealthScriptCalled
    /\ Key \in DOMAIN overrides
    /\ ~ExactHealth
    /\ Cardinality(WildcardHealthKeys) >= 1
    /\ ExactBuiltIn \in catalog
    /\ \E k \in WildcardHealthKeys : call.ret = FromOverride(k)

\* C4: when no override supplies a health script and the catalog holds a
\* health script at the exact ResourceKey, GetHealthScript returns it with
\* useOpenLibs = true, also when a wildcard directory matches.
C4_ExactBuiltIn ==
    HealthScriptCalled /\ ~ExactHealth /\ WildcardHealthKeys = {}
                       /\ ExactBuiltIn \in catalog =>
        call.ret = FromBuiltIn(ExactBuiltIn)

\* The exact built-in script was returned while wildcard directories matched.
C4_Witness ==
    /\ HealthScriptCalled
    /\ ~ExactHealth /\ WildcardHealthKeys = {}
    /\ ExactBuiltIn \in catalog
    /\ MatchingDirs # {}
    /\ call.ret = FromBuiltIn(ExactBuiltIn)

\* No override and no exact built-in script applies, and a wildcard directory matches.
WildcardBuiltInDecides ==
    /\ HealthScriptCalled
    /\ ~ExactHealth /\ WildcardHealthKeys = {}
    /\ ExactBuiltIn \notin catalog
    /\ MatchingDirs # {}

\* C5 as stated: when no override and no exact built-in script applies,
\* GetHealthScript returns, with useOpenLibs = true, the health script of the
\* matching wildcard directory whose glob pattern (marker replaced by "*") is
\* the lexicographically first.
C5_FirstByGlobPattern ==
    WildcardBuiltInDecides =>
        \E d \in MatchingDirs :
            /\ \A e \in MatchingDirs \ {d} :
                  StrLess(ReplaceAll(d, "_", "*"), ReplaceAll(e, "_", "*"))
            /\ call.ret = FromBuiltIn(File(d, healthScriptFile))

\* C5 as amended: the directory returned is the matching one whose path, with
\* the wildcard marker still in it, is the lexicographically first.
C5_FirstByDirectoryPath ==
    WildcardBuiltInDecides =>
        \E d \in MatchingDirs :
            /\ \A e \in MatchingDirs \ {d} : StrLess(d, e)
            /\ call.ret = FromBuiltIn(File(d, healthScriptFile))

\* Two wildcard directories matched, and the one first by path was returned.
C5_Witness ==
    /\ WildcardBuiltInDecides
    /\ Cardinality(MatchingDirs) >= 2
    /\ \E d \in MatchingDirs :
          /\ \A e \in MatchingDirs \ {d} : StrLess(d, e)
          /\ call.ret = FromBuiltIn(File(d, healthScriptFile))

\* The scripts and flags GetHealthScript may take from the wildcard overrides.
WildcardChoices == {FromOverride(k) : k \in WildcardHealthKeys}

\* C7 as stated: two runs of GetHealthScript on the same GVK, overrides and
\* catalog return the same script and the same flag.
C7_Deterministic ==
    HealthScriptCalled /\ prevHealth # Idle => call.ret = prevHealth

\* C7 as amended: two runs agree unless the wildcard overrides decide and
\* those that match disagree on the script or the flag.
C7_DeterministicButUserWildcards ==
    HealthScriptCalled /\ prevHealth # Idle
                       /\ (ExactHealth \/ Cardinality(WildcardChoices) <= 1) =>
        call.ret = prevHealth

\* Two runs agreed on a built-in wildcard script with two directories matching.
C7_Witness ==
    /\ WildcardBuiltInDecides
    /\ Cardinality(MatchingDirs) >= 2
    /\ prevHealth # Idle
    /\ call.ret = prevHealth
    /\ call.ret.script # EmptyScript

(***************************************************************************)
(* Claims about action resolution.                                         *)
(***************************************************************************)
\* The override of the exact key has an actions block that GetActions parses.
HasActionsBlock == Key \in DOMAIN overrides /\ overrides[Key].Actions.yaml = "ok"
\* The exact key has no actions block at all.
NoActionsBlock == Key \notin DOMAIN overrides \/ overrides[Key].Actions.yaml = ""

BuiltInDiscovery == File(ActionsDir(Key), actionDiscoveryScriptFile)
BuiltInDiscoveryScripts ==
    IF BuiltInDiscovery \in catalog THEN <<Content(BuiltInDiscovery)>> ELSE <<>>

NoMatch ==
    /\ ~ExactHealth /\ WildcardHealthKeys = {}
    /\ ExactBuiltIn \notin catalog /\ MatchingDirs = {}
    /\ NoActionsBlock
    /\ BuiltInDiscovery \notin catalog

\* Health resolution and the resolution of discovery scripts find nothing.
ResolvesToNothing ==
    /\ call.op = "GetResourceHealth" =>
          /\ call.found = NoScript
          /\ call.ret = HealthResult(NoHealthStatus, "")
    /\ call.op = "GetResourceActionDiscovery" =>
          call.ret.scripts = <<>> /\ call.ret.err = ""

\* C6 as stated: with no matching override and no matching built-in script,
\* health resolution returns no script (and GetResourceHealth neither status
\* nor error) and action discovery an empty list, never an error.
C6_NoScriptNoError ==
    NoMatch =>
        /\ ResolvesToNothing
        /\ call.op = "ExecuteResourceActionDiscovery" =>
              call.ret.err = "" /\ call.ret.actions = EmptyBag

\* C6 as amended: GetResourceActionDiscovery returns an empty list of scripts
\* and no error; ExecuteResourceActionDiscovery on that list returns the error
\* "no action discovery script provided".
C6_NoScriptButExecutionFails ==
    NoMatch =>
        /\ ResolvesToNothing
        /\ call.op = "ExecuteResourceActionDiscovery" =>
              /\ call.scripts = <<>>
              /\ call.ret.err = "no action discovery script provided"
              /\ call.ret.actions = EmptyBag

\* Nothing matched although the overrides and the catalog hold entries; the
\* resolver returned no script, and executing that empty list failed.
C6_Witness ==
    /\ NoMatch
    /\ DOMAIN overrides # {} /\ catalog # {}
    /\ call.op = "ExecuteResourceActionDiscovery"
    /\ call.scripts = <<>>
    /\ call.ret.err = "no action discovery script provided"

\* C8: an actions block of the exact key that does not request merging yields
\* the user discovery script alone and no catalog read; one that requests
\* merging yields the user script followed by the built-in discovery script
\* of the exact key if there is one; without an actions block the built-in
\* script alone if there is one; a missing built-in script is no error.
C8_DiscoveryResolution ==
    call.op = "GetResourceActionDiscovery" =>
        /\ HasActionsBlock /\ ~overrides[Key].Actions.MergeBuiltinActions =>
              call.ret = Discovery(<<overrides[Key].Actions.ActionDiscoveryLua>>, "", {})
        /\ HasActionsBlock /\ overrides[Key].Actions.MergeBuiltinActions =>
              /\ call.ret.err = ""
              /\ call.ret.scripts =
                    <<overrides[Key].Actions.ActionDiscoveryLua>> \o BuiltInDiscoveryScripts
        /\ NoActionsBlock =>
              /\ call.ret.err = ""
              /\ call.ret.scripts = BuiltInDiscoveryScripts

\* A merging actions block returned the user script followed by the built-in one.
C8_Witness ==
    /\ call.op = "GetResourceActionDiscovery"
    /\ HasActionsBlock /\ overrides[Key].Actions.MergeBuiltinActions
    /\ BuiltInDiscovery \in catalog
    /\ call.ret.scripts = <<D1, Content(BuiltInDiscovery)>>

\* The definitions of the exact key's actions block (none without a block).
UserDefinitions == IF HasActionsBlock THEN overrides[Key].Actions.Definitions ELSE <<>>
DefinedAt(name) == {i \in 1..Len(UserDefinitions) : UserDefinitions[i].Name = name}
BuiltInAction(name) == File(ActionDir(Key, name), actionScriptFile)

\* C9: when the override's definitions hold an entry of the requested name,
\* GetResourceAction returns the first such definition and reads no built-in
\* script; otherwise it returns a definition of that name with the built-in
\* script <ResourceKey>/actions/<name>, or an error when there is none.
C9_NamedAction ==
    call.op = "GetResourceAction" /\ (HasActionsBlock \/ NoActionsBlock) =>
        IF DefinedAt(call.actionName) # {}
        THEN \E i \in DefinedAt(call.actionName) :
                /\ \A j \in DefinedAt(call.actionName) : i <= j
                /\ call.ret = NamedAction(UserDefinitions[i], "", {})
        ELSE IF BuiltInAction(call.actionName) \in catalog
        THEN /\ call.ret.err = ""
             /\ call.ret.definition =
                   ResourceActionDefinition(call.actionName,
                                            Content(BuiltInAction(call.actionName)))
        ELSE call.ret.err = "errScriptDoesNotExist"

\* Of two user definitions of the name the first was returned, the built-in
\* script of that name being there too.
C9_Witness ==
    /\ call.op = "GetResourceAction"
    /\ Cardinality(DefinedAt(call.actionName)) = 2
    /\ BuiltInAction(call.actionName) \in catalog
    /\ call.ret = NamedAction(ResourceActionDefinition(call.actionName, A1), "", {})

(***************************************************************************)
(* Claims about the execution of discovery scripts.                        *)
(***************************************************************************)
\* The actionsMap that script i of the call yields (an empty map when the
\* script returns no actions).
ActionsMapOf(i) ==
    LET json == Encode(Eval(disc.scripts[i], obj).val)
    IN  IF json.t = "map" THEN json.m ELSE <<>>

Defining(name) == {i \in 1..Len(disc.scripts) : name \in DOMAIN ActionsMapOf(i)}

\* Every returned action is the one of the earliest script that defines its name.
EarliestScriptWins ==
    disc.pc = "done" /\ disc.err = "" =>
        \A name \in DOMAIN disc.acc :
            \E i \in Defining(name) :
                /\ \A j \in Defining(name) : i <= j
                /\ disc.acc[name] = EntryAction(name, ActionsMapOf(i)[name])

\* A step of the loop leaves every entry of the accumulator as it is.
KeepsEntries ==
    disc.pc = "loop" /\ disc'.pc # "idle" =>
        \A name \in DOMAIN disc.acc :
            name \in DOMAIN disc'.acc /\ disc'.acc[name] = disc.acc[name]

\* C10: while ExecuteResourceActionDiscovery processes the scripts in order,
\* a name already in the accumulator is never overwritten, so the action
\* returned for a name (with its disabled flag) is the one of the earliest
\* script that defines it.
C10_FirstWriterWins == [][KeepsEntries]_vars /\ []EarliestScriptWins

\* Two scripts defined "restart" with different disabled flags, and the call
\* returned the flag of the first.
C10_Witness ==
    /\ disc.pc = "done" /\ disc.err = ""
    /\ Len(disc.scripts) = 2
    /\ Defining("restart") = {1, 2}
    /\ EntryAction("restart", ActionsMapOf(1)["restart"])
          # EntryAction("restart", ActionsMapOf(2)["restart"])
    /\ disc.acc["restart"] = EntryAction("restart", ActionsMapOf(1)["restart"])

\* The names of the actions a finished call returns.
NamesOf(d) == {d.acc[key].Name : key \in DOMAIN d.acc}

\* The script, handed to the call alone, succeeds.
Succeeds(script) == ExecuteResourceActionDiscovery(obj, <<script>>).err = ""

PermutationsOf(scripts) ==
    {[i \in DOMAIN scripts |-> scripts[p[i]]] : p \in IterationOrders(DOMAIN scripts)}

\* C11: for a list of discovery scripts that all succeed, every permutation
\* of the list succeeds too and returns the same set of action names.
C11_NamesUnderPermutation ==
    disc.pc = "done" /\ (\A i \in DOMAIN disc.scripts : Succeeds(disc.scripts[i])) =>
        \A permuted \in PermutationsOf(disc.scripts) :
            LET other == ExecuteResourceActionDiscovery(obj, permuted)
            IN  other.err = disc.err /\ NamesOf(other) = NamesOf(disc)

\* The script at position i of the call returns an empty table.
ReturnsEmpty(i) == Eval(disc.scripts[i], obj) = Returned(NoFields)

\* A step over a script that returns an empty table adds no action, removes
\* none and ends the call with no error if the script is the last.
EmptySkipped ==
    disc.pc = "loop" /\ ReturnsEmpty(disc.i) =>
        /\ disc'.pc \in {"loop", "done"}
        /\ disc'.acc = disc.acc
        /\ disc'.pc = "done" => disc'.err = ""

OneDisabled == Script("return {pause={disabled=true}}", <<"user">>)
Empty == Script("return {}", <<"user">>)

\* A list of the empty script alone returns no action; with the script of one
\* disabled action before or after it, that one action, disabled.
DisabledDistinguished ==
    disc.pc = "done" =>
        /\ disc.scripts = <<Empty>> => disc.err = "" /\ disc.actions = EmptyBag
        /\ disc.scripts \in {<<OneDisabled>>, <<Empty, OneDisabled>>, <<OneDisabled, Empty>>} =>
              disc.err = "" /\ disc.actions = SetToBag({ResourceAction("pause", TRUE)})

\* C12: a discovery script that returns an empty aggregate is skipped without
\* error and contributes no action, the actions of the other scripts being
\* returned; a script that returns one disabled action yields one action with
\* disabled = true.
C12_EmptyScriptSkipped == [][EmptySkipped]_vars /\ []DisabledDistinguished

\* The empty script came first and the disabled action of the second script
\* was returned.
C12_Witness ==
    /\ disc.pc = "done"
    /\ disc.scripts = <<Empty, OneDisabled>>
    /\ disc.err = ""
    /\ disc.actions = SetToBag({ResourceAction("pause", TRUE)})

(***************************************************************************)
(* Claims about the shape of a script's output.                            *)
(***************************************************************************)
ActionCalled == call.op = "ExecuteResourceAction"
\* The encoded output of the action script of the call (valid JSON text of an
\* array starts with "[" and ends with "]", that of an object with "{", "}").
EncodedOutput == Encode(Eval(call.script, obj).val)
EncodedTable ==
    /\ Eval(call.script, obj).err = ""
    /\ Eval(call.script, obj).val.t = "table"
    /\ EncodedOutput # EncodeError

\* The cleaning pass that follows the decoding panicked.
CleaningPanicked == call.ret.err = "panic"

HealthCalled == call.op = "ExecuteHealthLua"
\* What the health script of the call leaves on top of the stack.
HealthRun == Eval(call.script, obj)

\* The script returns a table of string fields, status and message at most.
ReturnsStatusTable ==
    /\ HealthRun.err = ""
    /\ HealthRun.val.t = "table"
    /\ HealthRun.val.arr = <<>>
    /\ DOMAIN HealthRun.val.hash # {}
    /\ DOMAIN HealthRun.val.hash \subseteq {"status", "message"}
    /\ \A k \in DOMAIN HealthRun.val.hash : HealthRun.val.hash[k].t = "string"

ReturnedField(k) ==
    IF k \in DOMAIN HealthRun.val.hash THEN HealthRun.val.hash[k].v ELSE ""

RecognizedCodes == {"Unknown", "Progressing", "Suspended", "Healthy", "Degraded", "Missing"}

\* C14: a returned table whose status code is not one of the six recognized
\* values yields status Unknown with the fixed message and no error; one
\* whose code is recognized yields its status and message as they are.
C14_StatusCodeChecked ==
    HealthCalled /\ ReturnsStatusTable =>
        IF ReturnedField("status") \in RecognizedCodes
        THEN call.ret = HealthResult(HealthStatus(ReturnedField("status"),
                                                  ReturnedField("message")), "")
        ELSE call.ret = HealthResult(
                HealthStatus("Unknown", "Lua returned an invalid health status"), "")

\* The script returned the status Bogus with a message, and the call returned
\* Unknown with the fixed message.
C14_Witness ==
    /\ HealthCalled
    /\ ReturnsStatusTable
    /\ ReturnedField("status") = "Bogus"
    /\ ReturnedField("message") = "text"
    /\ call.ret.status.Status = "Unknown"
    /\ call.ret.err = ""

\* C15: a health script that returns nil makes ExecuteHealthLua return the
\* zero-value HealthStatus (empty status, empty message) and no error.
C15_NilIsZeroStatus ==
    HealthCalled /\ HealthRun = Returned(LNil) =>
        call.ret = HealthResult(HealthStatus("", ""), "")

C15_Witness ==
    /\ HealthCalled
    /\ call.script.body = "return nil"
    /\ call.ret = HealthResult(HealthStatus("", ""), "")

\* Health evaluation returned a HealthStatus and no error.
ReturnedHealthStatus ==
    /\ call.op \in {"ExecuteHealthLua", "GetResourceHealth"}
    /\ call.ret.err = ""
    /\ call.ret.status # NoHealthStatus

\* C16 as stated: every HealthStatus returned without error has one of the
\* six recognized status codes.
C16_StatusAlwaysRecognized ==
    ReturnedHealthStatus => call.ret.status.Status \in RecognizedCodes

\* C16 as amended: every HealthStatus returned without error is the zero
\* value (empty status, empty message) or has a recognized status code.
C16_StatusRecognizedOrZero ==
    ReturnedHealthStatus =>
        \/ call.ret.status = HealthStatus("", "")
        \/ call.ret.status.Status \in RecognizedCodes

\* GetResourceHealth ran an override's script that returned an unrecognized
\* code, and returned Unknown.
C16_Witness ==
    /\ call.op = "GetResourceHealth"
    /\ call.found.script.body = "return {status='Bogus', message='text'}"
    /\ ReturnedHealthStatus
    /\ call.ret.status.Status = "Unknown"

\* The error text that names the expected type, table, and the type of lv.
NamesTypes(err, lv) ==
    \/ lv.t = "nil" /\ err = "expect table output from Lua script, not nil"
    \/ lv.t = "bool" /\ err = "expect table output from Lua script, not boolean"
    \/ lv.t = "string" /\ err = "expect table output from Lua script, not string"

DiscoveryCalled == call.op = "ExecuteResourceActionDiscovery"

\* C17: a script whose top-of-stack value is no table makes the evaluator
\* return an error that names the expected and the actual type, and no result:
\* ExecuteHealthLua for every value that is neither a table nor nil,
\* ExecuteResourceAction and ExecuteResourceActionDiscovery for every value
\* that is no table, nil included.
C17_OutputShapeErrors ==
    /\ HealthCalled /\ HealthRun.err = "" /\ HealthRun.val.t \notin {"table", "nil"} =>
          /\ call.ret.status = NoHealthStatus
          /\ NamesTypes(call.ret.err, HealthRun.val)
    /\ ActionCalled /\ Eval(call.script, obj).err = ""
                    /\ Eval(call.script, obj).val.t # "table" =>
          /\ call.ret.resources = <<>>
          /\ NamesTypes(call.ret.err, Eval(call.script, obj).val)
    /\ DiscoveryCalled /\ Len(call.scripts) = 1
                       /\ Eval(call.scripts[1], obj).err = ""
                       /\ Eval(call.scripts[1], obj).val.t # "table" =>
          /\ call.ret.actions = EmptyBag
          /\ NamesTypes(call.ret.err, Eval(call.scripts[1], obj).val)

\* A discovery script returned nil and the call returned the error naming nil.
C17_Witness ==
    /\ DiscoveryCalled
    /\ Len(call.scripts) = 1
    /\ Eval(call.scripts[1], obj) = Returned(LNil)
    /\ call.ret.err = "expect table output from Lua script, not nil"
    /\ call.ret.actions = EmptyBag

\* The script returns a table with an entry that does not decode into a
\* HealthStatus: an array, or a status that is no string.
ReturnsUndecodableTable ==
    /\ HealthRun.err = ""
    /\ HealthRun.val.t = "table"
    /\ \/ HealthRun.val.arr # <<>>
       \/ /\ "status" \in DOMAIN HealthRun.val.hash
          /\ HealthRun.val.hash["status"].t # "string"

\* C18: an empty returned table yields the zero-value HealthStatus and no
\* error; a non-empty returned table that fails to decode into a HealthStatus
\* yields an error and no HealthStatus.
C18_OnlyEmptyTableTolerated ==
    /\ HealthCalled /\ HealthRun = Returned(NoFields) =>
          call.ret = HealthResult(HealthStatus("", ""), "")
    /\ HealthCalled /\ ReturnsUndecodableTable =>
          call.ret.err # "" /\ call.ret.status = NoHealthStatus

(***************************************************************************)
(* Claims about the sandbox.                                               *)
(***************************************************************************)
\* A call that returns after its deadline has passed returns the deadline's
\* error and no value.
AbortedWithoutResult ==
    \A p \in Callers :
        vm[p].pc = "returned" /\ vm[p].expired => vm[p].ret = Failed("timeout")

OwnGlobals(v) ==
    /\ GetGlobal(v.globals, "obj") \in {decodeValue(v.o), LNil}
    /\ GetGlobal(v.globals, "seen") # LNil => v.next > 2 \/ v.pc = "returned"

\* C20: under every interleaving of concurrent calls, each call returns what
\* it returns when run alone (the value Eval gives, or the error of its
\* deadline), and its interpreter holds no global of another call.
C20_IndependentInvocations ==
    \A p \in Callers :
        /\ vm[p].pc = "returned" =>
              vm[p].ret \in {Eval(vm[p].script, vm[p].o), Failed("timeout")}
        /\ vm[p].pc \in {"running", "returned"} => OwnGlobals(vm[p])

\* Two calls on different objects ran the script that returns obj, one after a
\* call that had written its globals, and each returned its own object.
C20_Witness ==
    /\ vm["c1"].pc = "returned" /\ vm["c2"].pc = "returned"
    /\ vm["c1"].script.body = "return obj" /\ vm["c2"].script.body = "return obj"
    /\ vm["c1"].o # vm["c2"].o
    /\ vm["c1"].ret = Returned(decodeValue(vm["c1"].o))
    /\ vm["c2"].ret = Returned(decodeValue(vm["c2"].o))

(***************************************************************************)
(* Claims about the one-time wildcard index.                               *)
(***************************************************************************)
PathsReturned(p) == At(p, "returned")
ReturnedPaths(p) == once.of[p].ret

\* A list in the strict order of slices.Sort.
InSortedOrder(paths) ==
    \A i, j \in 1..Len(paths) : i < j => StrLess(paths[i], paths[j])

\* The index holds the wildcard directories of the catalog, sorted.
IndexPublished ==
    /\ {globHealthScriptPaths[i] : i \in 1..Len(globHealthScriptPaths)} = WildcardDirs(catalog)
    /\ InSortedOrder(globHealthScriptPaths)

OnceSafety ==
    /\ once.walks <= 1
    /\ \A p \in Callers :
          PathsReturned(p) =>
              /\ onceDone
              /\ once.walks = 1
              /\ ~WalkFails(catalog) => IndexPublished
    /\ \A p, q \in Callers :
          PathsReturned(p) /\ PathsReturned(q)
          /\ ReturnedPaths(p).err = "" /\ ReturnedPaths(q).err = "" =>
              /\ ReturnedPaths(p).paths = ReturnedPaths(q).paths
              /\ ReturnedPaths(p).paths = globHealthScriptPaths
              /\ InSortedOrder(ReturnedPaths(p).paths)

IndexFrozen == onceDone => globHealthScriptPaths' = globHealthScriptPaths

\* C21: under every interleaving of the callers of getGlobHealthScriptPaths
\* the walk runs at most once; a caller that has returned finds the Once done
\* and, the walk having succeeded, the index published; the callers that
\* returned without error hold the same sorted list, that of the index; and
\* once the Once is done the index never changes.
C21_OneTimeIndex == []OnceSafety /\ [][IndexFrozen]_vars

\* Both callers have returned the same index of two directories from one walk.
C21_Witness ==
    /\ \A p \in Callers : PathsReturned(p) /\ ReturnedPaths(p).err = ""
    /\ once.walks = 1
    /\ Len(ReturnedPaths("c1").paths) = 2
    /\ ReturnedPaths("c1").paths = ReturnedPaths("c2").paths

\* C26: when the walk fails, every caller that has returned from
\* getGlobHealthScriptPaths has received an error, and none of them an empty
\* list without error.
C26_WalkFailureReported ==
    \A p \in Callers :
        WalkFails(catalog) /\ PathsReturned(p) => ReturnedPaths(p).err # ""

(***************************************************************************)
(* Claims about the input object and the cleaning pass.                    *)
(***************************************************************************)
Evaluated ==
    call.op \in {"ExecuteHealthLua", "ExecuteResourceActionDiscovery",
                 "ExecuteResourceAction"}

\* Every node of the original object is what it was before the call.
OriginalIntact(h) ==
    LET before == Nodes(obj, Root(0))
    IN  /\ \A ref \in DOMAIN before : h.nodes[ref] = before[ref]
        /\ Load(h.nodes, Pointer(Root(0))) = obj

\* C22: after health evaluation, action discovery and action execution (the
\* cleaning pass included), whether the call succeeded, failed or panicked,
\* the input object is structurally equal to its value before the call.
C22_InputNotMutated == Evaluated => OriginalIntact(call.heap)

\* An action was executed whose cleaning pass stored, in the map it returned,
\* a pointer to an empty map of the original object.
C22_Witness ==
    /\ call.op = "ExecuteResourceAction"
    /\ call.script.body = "return {{operation='patch', resource=obj}}"
    /\ call.ret.err = ""
    /\ "a" \in DOMAIN obj.m
    /\ obj.m["a"].t = "map"
    /\ \E k \in DOMAIN obj.m["a"].m : obj.m["a"].m[k] = EmptyMap
    /\ call.heap.nodes[Root(1)].m["a"] = Pointer(AtKey(Root(1), "a"))
    /\ \E k \in DOMAIN obj.m["a"].m :
          call.heap.nodes[AtKey(Root(1), "a")].m[k] = Pointer(AtKey(AtKey(Root(0), "a"), k))

\* The call returned one object to patch, decoded from an old-style output.
PatchedOldStyle ==
    /\ call.op = "ExecuteResourceAction"
    /\ call.ret.err = ""
    /\ EncodedOutput.t = "map"

\* C23: where the new and the original value at a key are both lists, every
\* element of the new list is corrected against the original element at the
\* same index: a map against a map and a list against a list recursively, and
\* an empty list whose original element is a map is replaced by that map.
C23_ListElementsCorrected ==
    PatchedOldStyle =>
        \A key \in DOMAIN EncodedOutput.m \cap DOMAIN obj.m :
            LET new == EncodedOutput.m[key]
                old == obj.m[key]
                res == call.ret.resources[1].UnstructuredObj.m[key]
            IN  new.t = "list" /\ old.t = "list" =>
                    \A i \in 1..Len(new.l) :
                        i <= Len(old.l) =>
                            /\ new.l[i].t = "map" /\ old.l[i].t = "map" =>
                                  res.l[i] = cleanReturnedObj(new.l[i], old.l[i])
                            /\ new.l[i].t = "list" /\ old.l[i].t = "list" =>
                                  res.l[i] = cleanReturnedArray(new.l[i], old.l[i])
                            /\ new.l[i] = EmptyList /\ old.l[i].t = "map" =>
                                  res.l[i] = old.l[i]

\* C24: the cleaning pass returns a result for every new and original object:
\* no call of ExecuteResourceAction ends in a runtime panic.
C24_CleaningTotal ==
    call.op = "ExecuteResourceAction" => call.ret.err # "panic" /\ ~call.heap.panic

(***************************************************************************)
(* Claims about the names of discovered actions.                           *)
(***************************************************************************)
\* C25: every action that ExecuteResourceActionDiscovery returns carries as
\* its Name the key under which a script defined it, and no two returned
\* actions have the same Name.
C25_NamesAreKeys ==
    disc.pc = "done" /\ disc.err = "" =>
        /\ \A key \in DOMAIN disc.acc :
              disc.acc[key].Name = key /\ Defining(key) # {}
        /\ \A k1, k2 \in DOMAIN disc.acc : k1 # k2 => disc.acc[k1].Name # disc.acc[k2].Name
        /\ \A action \in BagToSet(disc.actions) : CopiesIn(action, disc.actions) = 1

(***************************************************************************)
(* Claims about named actions and the merge flag.                          *)
(***************************************************************************)
\* The overrides with the merge flag of the exact key's actions block inverted.
MergeFlagInverted == [overrides EXCEPT ![Key].Actions.MergeBuiltinActions = ~@]

\* No user definition has the requested name and the built-in action exists.
OnlyBuiltIn ==
    /\ call.op = "GetResourceAction"
    /\ HasActionsBlock
    /\ DefinedAt(call.actionName) = {}
    /\ BuiltInAction(call.actionName) \in catalog

\* C27: GetResourceAction returns the same whatever the merge flag of the
\* actions block; when no user definition has the requested name and the
\* built-in action script exists it returns that script, also when the block
\* does not request merging and GetResourceActionDiscovery therefore returns
\* the user discovery script alone.
C27_NamedActionIgnoresMerge ==
    /\ call.op = "GetResourceAction" /\ HasActionsBlock =>
          call.ret = GetResourceAction(MergeFlagInverted, catalog, gvk, call.actionName)
    /\ OnlyBuiltIn =>
          /\ call.ret.err = ""
          /\ call.ret.definition =
                ResourceActionDefinition(call.actionName,
                                         Content(BuiltInAction(call.actionName)))
          /\ ~overrides[Key].Actions.MergeBuiltinActions =>
                GetResourceActionDiscovery(overrides, catalog, gvk).scripts
                    = <<overrides[Key].Actions.ActionDiscoveryLua>>

\* A block that does not merge, with a built-in discovery script that is left
\* out of discovery, and the built-in action resolved by its name.
C27_Witness ==
    /\ OnlyBuiltIn
    /\ ~overrides[Key].Actions.MergeBuiltinActions
    /\ BuiltInDiscovery \in catalog
    /\ call.actionName = "pause"
    /\ call.ret.err = ""
    /\ call.ret.definition.ActionLua = Content(BuiltInAction("pause"))

(***************************************************************************)
(* Claims about the bridge from host values to Lua values.                 *)
(***************************************************************************)
Decoded == call.op = "decodeValue"
IntegerTypes == SignedTypes \cup UnsignedTypes

\* C28 as stated: decodeValue maps a host integer of every width, signed or
\* unsigned, to the number of the same value, and to nil only a value that is
\* no boolean, number, string, list or map.
C28_EveryIntegerWidth ==
    Decoded =>
        /\ obj.t \in IntegerTypes => call.ret = LNumber(obj.v)
        /\ call.ret = LNil =>
              obj.t \notin IntegerTypes \cup {"bool", "float64", "string", "json.Number",
                                             "list", "map"}

\* C28 as amended: decodeValue maps an int, an int32, an int64 and a float64
\* to the number of the same value and a json.Number to a string; an integer
\* of another type (int8, int16, uint, uint8, uint16, uint32, uint64) maps to
\* nil, as does nil and every other type that is no boolean, string, list or
\* map.
C28_HandledIntegerTypes ==
    Decoded =>
        /\ obj.t \in {"int", "int32", "int64", "float64"} => call.ret = LNumber(obj.v)
        /\ obj.t = "json.Number" => call.ret = LString(obj.v)
        /\ obj.t \in IntegerTypes \ {"int", "int32", "int64"} => call.ret = LNil
        /\ call.ret = LNil <=>
              obj.t \notin {"int", "int32", "int64", "float64", "json.Number", "bool",
                            "string", "list", "map"}

\* An int64 was decoded to the number of its value.
C28_Witness ==
    /\ Decoded
    /\ obj = HNum("int64", 2147483647)
    /\ call.ret = LNumber(2147483647)

====
